---------------------------- MODULE Spec2Model ----------------------------
(***************************************************************************)
(* A model of the route optimizer of ScrambleOpt: the path (path.py), the  *)
(* resegmenter and simplifier (resegmenter.py), the single point mover     *)
(* (perturbers/singlePointMover.py) and the solver loop                    *)
(* (solvers/simulatedAnneal.py).                                           *)
(*                                                                         *)
(* Numbers.  Coordinates and elevations are fixed-point integers, in units *)
(* of 1/CoordScale raster cell.  Lengths are fixed-point integers in units *)
(* of 1/LenScale coordinate unit.  Costs are integers in units of          *)
(* 1/CostScale cost unit.  The conversion of stored (double) points to     *)
(* single precision by get_points/get_segments is F32: it keeps a 24 bit   *)
(* significand and rounds to nearest, ties to even.                        *)
(***************************************************************************)
EXTENDS Integers, Sequences, FiniteSets, TLC

\* ------------------------------------------------------------------------
\* Resolutions and bounds of the model
\* ------------------------------------------------------------------------

\* coordinate units per raster cell
CoordScale == 2

\* length units per coordinate unit
LenScale == 16

\* 2^24: the significand of numpy.float32
F32Mant == 16777216

\* ------------------------------------------------------------------------
\* Arithmetic
\* ------------------------------------------------------------------------

\* the element of a one-element set.  The({F(x) : x \in {e}}) is F(e) with
\* e computed once, wherever F uses its argument
The(S) == CHOOSE x \in S : TRUE

Abs(n) == IF n < 0 THEN -n ELSE n

Max(a, b) == IF a >= b THEN a ELSE b

Min(a, b) == IF a <= b THEN a ELSE b

\* n/d rounded to the nearest integer, ties to the even one (numpy.round,
\* and IEEE rounding of a quotient onto the fixed-point grid); d > 0
RoundHalfEven(n, d) ==
    LET q == n \div d
        r == n % d
    IN  IF 2 * r < d THEN q
        ELSE IF 2 * r > d THEN q + 1
        ELSE IF q % 2 = 0 THEN q ELSE q + 1

\* n/d rounded up (math.ceil); d > 0
CeilDiv(n, d) == -((-n) \div d)

RECURSIVE NewtonSqrt(_, _)
NewtonSqrt(n, x) ==
    The({IF y >= x THEN x ELSE NewtonSqrt(n, y) : y \in {(x + n \div x) \div 2}})

\* the square root of n >= 0 rounded to the nearest integer
ISqrt(n) ==
    IF n = 0 THEN 0
    ELSE The({IF n - r * r > r THEN r + 1 ELSE r : r \in {NewtonSqrt(n, n)}})

RECURSIVE UlpOf(_, _)
UlpOf(a, u) == IF a \div u < F32Mant THEN u ELSE UlpOf(a, 2 * u)

\* a double converted to single precision (dtype=np.float32)
F32(v) ==
    LET a == Abs(v)
        u == UlpOf(a, 1)
        m == RoundHalfEven(a, u) * u
    IN  IF v < 0 THEN -m ELSE m

RECURSIVE SumTo(_, _)
SumTo(s, k) == IF k = 0 THEN 0 ELSE s[k] + SumTo(s, k - 1)

SumSeq(s) == The({SumTo(v, Len(v)) : v \in {s}})


\* ------------------------------------------------------------------------
\* Path (path.py).  A path is [points |-> sequence of <<x, y, z>>,
\* locked |-> BOOLEAN]; the source's index i is i + 1 here.
\* ------------------------------------------------------------------------

Path(pts, lk) == [points |-> pts, locked |-> lk]

\* an optional value: None, or Some(v)
None == <<>>

Some(v) == <<v>>

F32Pt(p) == <<F32(p[1]), F32(p[2]), F32(p[3])>>

shallow_copy(path) == Path(path.points, path.locked)

\* a copy that is the object it was taken from
shallow_copy_aliases(shared) == shared

\* whether the object shallow_copy returns shares a point list with the
\* caller's path, `shared` telling whether its source does: it is a new xyzPath
\* holding a copy of every point
shallow_copy_shares(shared) == FALSE

\* the names S bound to the caller's object, after `name` is bound to an
\* object that is (shared) or is not the caller's
Bind(S, name, shared) == IF shared THEN S \cup {name} ELSE S \ {name}

\* a count that is one too many: the property of the short path must tell
\* it apart
get_point_count_plus_one(path) == Len(path.points) + 1

get_point_count(path) == Len(path.points)

\* np.array(self.points, dtype=np.float32)
get_points(path) == [i \in 1..Len(path.points) |-> F32Pt(path.points[i])]

\* the norm of a displacement, in length units
Norm3(d) ==
    The({ISqrt(n) : n \in {LenScale * LenScale * (d[1] * d[1] + d[2] * d[2] + d[3] * d[3])}})

\* p - q on single-precision rows
Diff(p, q) == <<F32(p[1] - q[1]), F32(p[2] - q[2]), F32(p[3] - q[3])>>

\* one row of get_segments: np.append(deltas, distance)
SegmentRow(d) == <<d[1], d[2], d[3], Norm3(d)>>

\* np.diff(points, axis=0) with the distance column, on the points array P
SegmentsOf(P) ==
    [i \in 1..(Len(P) - 1) |-> The({SegmentRow(d) : d \in {Diff(P[i + 1], P[i])}})]

\* rows <<dx, dy, dz, distance>>, computed in single precision
get_segments(path) ==
    IF Len(path.points) < 2 THEN <<>>
    ELSE The({SegmentsOf(P) : P \in {get_points(path)}})

\* segments[:, 3]
LengthColumn(S) == [i \in 1..Len(S) |-> S[i][4]]

SegLengths(path) == The({LengthColumn(S) : S \in {get_segments(path)}})

get_total_distance(path) == SumSeq(SegLengths(path))

\* ------------------------------------------------------------------------
\* Resegmenter (resegmenter.py)
\* ------------------------------------------------------------------------

\* np.round((segment_lengths / total_length) * points_to_add)
RoundedShares(L, total, toAdd) ==
    [i \in 1..Len(L) |-> RoundHalfEven(L[i] * toAdd, total)]

\* the fractional part of each share, as a numerator over total
FractionalParts(L, total, toAdd) ==
    [i \in 1..Len(L) |-> (L[i] * toAdd) % total]

\* np.argsort(fractional_parts)[-remainder:]: the segments holding the
\* `remainder` largest fractional parts (equal parts in index order)
TopIndices(frac, remainder) ==
    LET n == Len(frac)
        rank(i) == Cardinality({j \in 1..n :
                        \/ frac[j] < frac[i]
                        \/ (frac[j] = frac[i] /\ j < i)})
    IN  {i \in 1..n : rank(i) >= n - remainder}

\* points_to_add_per_segment[top_indices] += 1
AddOne(rounded, top) ==
    [i \in 1..Len(rounded) |-> IF i \in top THEN rounded[i] + 1 ELSE rounded[i]]

\* lines 38-46: remainder = points_to_add - sum; only remainder > 0 is
\* handed out
Reconcile(L, total, toAdd, rounded, remainder) ==
    The({AddOne(rounded, top) :
            top \in {IF remainder > 0
                     THEN TopIndices(FractionalParts(L, total, toAdd), remainder)
                     ELSE {}}})

HandOut(L, total, toAdd, rounded) ==
    The({Reconcile(L, total, toAdd, rounded, remainder) :
            remainder \in {toAdd - SumSeq(rounded)}})

DistributeShares(L, total, toAdd) ==
    The({HandOut(L, total, toAdd, rounded) : rounded \in {RoundedShares(L, total, toAdd)}})

\* points_to_add_per_segment, for a path of positive length (on a path of
\* length 0 every share is NaN, and its cast to int is the platform's: such
\* paths are not among the inputs)
PointsToAddPerSegment(L, toAdd) ==
    The({DistributeShares(L, total, toAdd) : total \in {SumSeq(L)}})

\* interp_point = p1 + t * (p2 - p1), t = i / (num_new_points + 1)
InterpCoord(a, b, i, k) == F32(a + F32(RoundHalfEven(i * F32(b - a), k + 1)))

InterpPoint(p1, p2, i, k) ==
    <<InterpCoord(p1[1], p2[1], i, k),
      InterpCoord(p1[2], p2[2], i, k),
      InterpCoord(p1[3], p2[3], i, k)>>

RECURSIVE BuildPoints(_, _, _)
\* new_points of segments seg..: each segment's start, then its inserted points
BuildPoints(P, add, seg) ==
    IF seg > Len(add) THEN <<P[Len(P)]>>
    ELSE <<P[seg]>>
         \o [i \in 1..Max(add[seg], 0) |-> InterpPoint(P[seg], P[seg + 1], i, add[seg])]
         \o BuildPoints(P, add, seg + 1)

\* lines 24-77: the path has fewer points than the target
ResegmentBy(path, L, points_to_add) ==
    IF Len(L) = 0 THEN None
    ELSE The({Some(Path(BuildPoints(P, add, 1), path.locked)) :
                 P \in {get_points(path)},
                 add \in {PointsToAddPerSegment(L, points_to_add)}})

resegment(path, target_point_count) ==
    IF target_point_count <= get_point_count(path) THEN None
    ELSE The({ResegmentBy(path, L, target_point_count - get_point_count(path)) :
                 L \in {SegLengths(path)}})

\* ------------------------------------------------------------------------
\* Simplifier (resegmenter.py).  The tolerance is tolNum/tolDen raster cells.
\* ------------------------------------------------------------------------

SqNorm(v) == v[1] * v[1] + v[2] * v[2] + v[3] * v[3]

Cross(a, b) == <<a[2] * b[3] - a[3] * b[2],
                 a[3] * b[1] - a[1] * b[3],
                 a[1] * b[2] - a[2] * b[1]>>

\* len_v < tolerance
ShorterThan(v, tolNum, tolDen) ==
    SqNorm(v) < CeilDiv(tolNum * tolNum * CoordScale * CoordScale, tolDen * tolDen)

\* np.linalg.norm(np.cross(v1 / len_v1, v2 / len_v2)) > tolerance
CrossAbove(v1, v2, tolNum, tolDen) ==
    SqNorm(Cross(v1, v2)) > (tolNum * tolNum * SqNorm(v1) * SqNorm(v2)) \div (tolDen * tolDen)

\* lines 113-127: v1 and v2 are the displacements into and out of a point
KeepByVectors(v1, v2, tolNum, tolDen) ==
    IF ShorterThan(v1, tolNum, tolDen) \/ ShorterThan(v2, tolNum, tolDen)
    THEN TRUE
    ELSE CrossAbove(v1, v2, tolNum, tolDen)

\* whether interior point i of P (1 < i < Len(P)) goes to points_to_keep
KeepPoint(P, i, tolNum, tolDen) ==
    KeepByVectors(Diff(P[i], P[i - 1]), Diff(P[i + 1], P[i]), tolNum, tolDen)

\* the kept indices, ascending
PointsToKeep(P, tolNum, tolDen) ==
    {1, Len(P)} \cup {i \in 2..(Len(P) - 1) : KeepPoint(P, i, tolNum, tolDen)}

RECURSIVE SelectPoints(_, _, _)
SelectPoints(P, keep, i) ==
    IF i > Len(P) THEN <<>>
    ELSE (IF i \in keep THEN <<P[i]>> ELSE <<>>) \o SelectPoints(P, keep, i + 1)

\* simplify on the points array P of a path
SimplifyPoints(P, lk, tolNum, tolDen) ==
    IF Len(P) <= 2 THEN Path(P, lk)
    ELSE Path(SelectPoints(P, PointsToKeep(P, tolNum, tolDen), 1), lk)

simplify(path, tolNum, tolDen) ==
    SimplifyPoints(get_points(path), path.locked, tolNum, tolDen)


\* ------------------------------------------------------------------------
\* Elevation source (dem_loader.py) and cost functions
\* ------------------------------------------------------------------------

\* one cost unit
CostScale == 10000

\* float('inf'): above every finite cost
Inf == 1000000000

\* int(v) of a coordinate: truncation toward zero, in raster cells
Trunc(v) == IF v >= 0 THEN v \div CoordScale ELSE -((-v) \div CoordScale)

\* a DEM is [width, height, elev]: elev[x] is the elevation of column x (the
\* terrains modelled are constant along y)
get_elevation(d, x, y) ==
    IF x < 0 \/ x >= d.width \/ y < 0 \/ y >= d.height THEN None
    ELSE Some(d.elev[x + 1])

\* xyzPath.update_z_values on a point list, the DEM being set
update_z_values(pts, d) ==
    [i \in 1..Len(pts) |->
        LET z == get_elevation(d, Trunc(pts[i][1]), Trunc(pts[i][2]))
        IN  IF z = None THEN pts[i] ELSE <<pts[i][1], pts[i][2], z[1]>>]

\* an operation on a path that ended normally, leaving the path p
Done(p) == [path |-> p, error |-> None]

\* an operation on path p that raised kind(message), p being as it was
Raised(p, kind, message) == [path |-> p, error |-> Some([kind |-> kind, message |-> message])]

\* s without its element at place i
RemoveAt(s, i) == [j \in 1..(Len(s) - 1) |-> IF j < i THEN s[j] ELSE s[j + 1]]

\* delete_point(index) on path p
delete_point(p, index) ==
    IF index < 1 \/ index > Len(p.points)
    THEN Raised(p, "IndexError", "out of range")
    ELSE IF p.locked /\ (index = 1 \/ index = Len(p.points))
    THEN Raised(p, "IndexError", "locked")
    ELSE Done(Path(RemoveAt(p.points, index), p.locked))

\* lines 95-107 of shift_point: the new position and, on request, its z
ShiftTo(p, d, index, new_x, new_y, update_z) ==
    IF ~update_z
    THEN Done(Path([p.points EXCEPT ![index] = <<new_x, new_y, p.points[index][3]>>],
                   p.locked))
    ELSE IF d = None THEN Raised(p, "ValueError", "no DEM set")
    ELSE LET z == get_elevation(d[1], Trunc(new_x), Trunc(new_y))
         IN  IF z = None THEN Raised(p, "ValueError", "could not read elevation")
             ELSE Done(Path([p.points EXCEPT ![index] = <<new_x, new_y, z[1]>>],
                            p.locked))

\* a path that lets its locked endpoints be shifted: the locking property
\* must tell it apart
shift_point_unguarded(p, d, index, dx, dy, update_z) ==
    IF index < 1 \/ index > Len(p.points)
    THEN Raised(p, "IndexError", "out of range")
    ELSE ShiftTo(p, d, index, p.points[index][1] + dx, p.points[index][2] + dy, update_z)

\* shift_point(index, dx, dy, update_z) on path p whose DEM is d
shift_point(p, d, index, dx, dy, update_z) ==
    IF index < 1 \/ index > Len(p.points)
    THEN Raised(p, "IndexError", "out of range")
    ELSE IF p.locked /\ (index = 1 \/ index = Len(p.points))
    THEN Raised(p, "IndexError", "locked")
    ELSE ShiftTo(p, d, index, p.points[index][1] + dx, p.points[index][2] + dy, update_z)

RECURSIVE SumF32To(_, _)
SumF32To(s, k) == IF k = 0 THEN 0 ELSE F32(SumF32To(s, k - 1) + s[k])

\* np.sum of a single-precision array of fewer than 8 elements: the elements
\* are added one by one in single precision
SumF32(s) == The({SumF32To(v, Len(v)) : v \in {s}})

\* an elevation loss that keeps the sign of the descents: the gain and loss
\* property must tell it apart
GainSignedLoss(S) ==
    <<SumF32([i \in 1..Len(S) |-> Max(S[i][3], 0)]),
      SumF32([i \in 1..Len(S) |-> Min(S[i][3], 0)])>>

\* lines 204-208: gain = np.sum(dz[dz > 0]), loss = np.sum(-dz[dz < 0])
GainLoss(S) ==
    <<SumF32([i \in 1..Len(S) |-> Max(S[i][3], 0)]),
      SumF32([i \in 1..Len(S) |-> Max(-S[i][3], 0)])>>

\* <<gain, loss>>
get_elevation_gain_loss(p) == The({GainLoss(S) : S \in {get_segments(p)}})

\* adjacent points nearer than max_distance only: the property of the merged
\* runs must tell it apart
CloserThan(a, b, max_distance) ==
    (a[1] - b[1]) * (a[1] - b[1]) + (a[2] - b[2]) * (a[2] - b[2])
        < max_distance * max_distance

\* dist2(a, b) <= max_distance, dist2 being math.hypot of the x and y deltas
Close(a, b, max_distance) ==
    (a[1] - b[1]) * (a[1] - b[1]) + (a[2] - b[2]) * (a[2] - b[2])
        <= max_distance * max_distance

\* the inner while loop: the last index of the run that goes through j
RECURSIVE RunEnd(_, _, _)
RunEnd(pts, max_distance, j) ==
    IF j < Len(pts) /\ Close(pts[j], pts[j + 1], max_distance)
    THEN RunEnd(pts, max_distance, j + 1)
    ELSE j

\* np.mean of column c of the points i..j (the paths modelled have
\* coordinates whose means are whole)
MeanOf(pts, i, j, c) ==
    SumSeq([k \in 1..(j - i + 1) |-> pts[i + k - 1][c]]) \div (j - i + 1)

\* z of the DEM at the truncated mean, the mean z when there is no DEM or no
\* elevation there
CollapsedZ(z, mean_z) == IF z = None THEN mean_z ELSE z[1]

\* the point a run i..j collapses to
CollapsedPoint(pts, d, i, j) ==
    The({<<mx, my, CollapsedZ(IF d = None THEN None
                              ELSE get_elevation(d[1], Trunc(mx), Trunc(my)),
                              MeanOf(pts, i, j, 3))>> :
            mx \in {MeanOf(pts, i, j, 1)}, my \in {MeanOf(pts, i, j, 2)}})

\* a run i..j in new_pts: its points when the path is locked and the run
\* holds an endpoint, the collapsed point otherwise
RunPoints(pts, lk, d, i, j) ==
    IF lk /\ (i = 1 \/ j = Len(pts))
    THEN SubSeq(pts, i, j)
    ELSE <<CollapsedPoint(pts, d, i, j)>>

\* the outer while loop from index i on
RECURSIVE ConsolidateFrom(_, _, _, _, _)
ConsolidateFrom(pts, lk, d, max_distance, i) ==
    IF i > Len(pts) THEN <<>>
    ELSE IF i < Len(pts) /\ Close(pts[i], pts[i + 1], max_distance)
    THEN The({RunPoints(pts, lk, d, i, j) \o ConsolidateFrom(pts, lk, d, max_distance, j + 1) :
                 j \in {RunEnd(pts, max_distance, i)}})
    ELSE <<pts[i]>> \o ConsolidateFrom(pts, lk, d, max_distance, i + 1)

\* consolidate_consecutive_clusters(max_distance) on path p with DEM d
consolidate_consecutive_clusters(p, d, max_distance) ==
    IF Len(p.points) < 2 THEN p
    ELSE Path(ConsolidateFrom(p.points, p.locked, d, max_distance, 1), p.locked)

\* the sum of the positive elevation deltas of the segments
ClimbOf(S) == SumSeq([i \in 1..Len(S) |-> Max(S[i][3], 0)])

Climb(p) == The({ClimbOf(S) : S \in {get_segments(p)}})

\* The caller's cost function, cost_function(path).  The functions modelled
\* charge `weight` per unit of climb and fail (raise) on a path that has a
\* point at elevation failZ: None when it raises, Some(cost) otherwise.
Cost(cf, p) ==
    IF \E i \in 1..Len(p.points) : Some(p.points[i][3]) = cf.failZ THEN None
    ELSE Some(cf.weight * Climb(p))

\* The cost functions of cost_functions.py, on the paths modelled for them:
\* level, every segment a whole number of cells long.  A cost is in
\* 1/CostScale, None when the function raises.

\* the length of segment row r, in cells
CellsOf(r) == r[4] \div (LenScale * CoordScale)

\* np.sum(dist) and np.sum(dist ** 2), in cells
DistSum(S) == SumSeq([i \in 1..Len(S) |-> CellsOf(S[i])])

DistSquareSum(S) == SumSeq([i \in 1..Len(S) |-> CellsOf(S[i]) * CellsOf(S[i])])

\* sum(segments[:, 2]), in coordinate units
RiseSum(S) == SumSeq([i \in 1..Len(S) |-> S[i][3]])

\* lines 11-33 of re3 on the segment rows S of a level path, time > 0:
\* 4.43 * time + 1.39 * sum(dist) + 0.185 * sum(dist ** 2 / segTime), segTime
\* being time * 3600 / segCount; the slope term is 30.43 * sum(0 * ...) = 0
Re3Terms(S, time) ==
    RoundHalfEven((443 * time + 139 * DistSum(S)) * CostScale, 100)
    + RoundHalfEven(185 * Len(S) * DistSquareSum(S) * CostScale, 3600000 * time)

\* a running cost that charges the time budget to a path without segments:
\* the property of the degenerate case must tell it apart
re3_time_charged(p, time) ==
    IF get_point_count(p) - 1 <= 0
    THEN Some(RoundHalfEven(443 * time * CostScale, 100))
    ELSE Some(The({Re3Terms(S, time) : S \in {get_segments(p)}}))

\* re3(path, time)
re3(p, time) ==
    IF get_point_count(p) - 1 <= 0 THEN Some(0)
    ELSE Some(The({Re3Terms(S, time) : S \in {get_segments(p)}}))

\* line 47 of acsm_equation: 0.1 * sum(dist) + 1.8 * sum(rise) + time * 0.0583
AcsmTerms(S, time) ==
    RoundHalfEven((1000 * DistSum(S) * CoordScale + 18000 * RiseSum(S)
                     + 583 * time * CoordScale) * CostScale,
                  10000 * CoordScale)

\* acsm_equation(path, time): line 44 divides time * 3600 by segCount and
\* raises ZeroDivisionError when it is 0
acsm_equation(p, time) ==
    IF get_point_count(p) - 1 = 0 THEN None
    ELSE Some(The({AcsmTerms(S, time) : S \in {get_segments(p)}}))

\* ------------------------------------------------------------------------
\* State
\* ------------------------------------------------------------------------

VARIABLES
    path,               \* the caller's path object
    dem,                \* path.dem: None or Some(DEM)
    cost_function,      \* the caller's cost function
    callback,           \* whether a progress callback was passed
    hasStop,            \* whether a stop_event was passed
    stopSet,            \* stop_event.is_set()
    perturbers,         \* perturber_objs: the SinglePointMover instances
    patience,           \* the host sets stop_event before this iteration starts
    pc,                 \* where optimize stands
    current_path, current_cost, best_path, best_cost,
    iter_count, target_point_count,
    perturber,          \* index of the perturber picked in this iteration
    new_path,           \* the candidate
    loc,                \* the locals of the running perturb call
    cbCount,            \* number of callback invocations
    cbLast,             \* arguments of the last callback invocation
    delta,              \* optimize's local delta (None before the first one)
    result,             \* what optimize returned: None, or Some(<<path, cost>>)
    given,              \* the caller's path as it was before the call
    refs,               \* the names bound to an object that is the caller's path
                        \* object (or shares a point list with it)
    obs,                \* what the calls between optimize and the perturber did
    fn                  \* a call of a path operation, resegment or simplify on `path`

inputVars == <<path, dem, cost_function, callback, hasStop, patience, given>>

optVars == <<pc, current_path, current_cost, best_path, best_cost, iter_count,
             target_point_count, perturber, new_path, loc, cbCount, cbLast, delta,
             result, perturbers, refs, obs>>

vars == <<inputVars, optVars, stopSet, fn>>

\* ------------------------------------------------------------------------
\* SinglePointMover (perturbers/singlePointMover.py)
\* ------------------------------------------------------------------------

\* the smallest inner loop of a hill-climb round: max(8, samples // 2)
ClimbSamplesMin == 8

\* steps_remaining of a new propagation plan
PlanSteps == 3

NewMover(samples, max_climb_steps) ==
    [samples |-> samples, max_climb_steps |-> max_climb_steps,
     propagation |-> None, last_move |-> None]

\* whether an offset of length |off| can be drawn: r <= radius / shrink,
\* radius = max(1.0, 0.25 * mean segment length)
RadiusAllows(r, L) ==
    \/ r <= CoordScale * LenScale
    \/ (Len(L) > 0 /\ r * 4 * Len(L) <= SumSeq(L))

WithinRadius(off, p, shrink) ==
    \E L \in {SegLengths(p)} : RadiusAllows(Norm3(<<off[1], off[2], 0>>) * shrink, L)

\* _make_candidate(path_cls, dem, pts, idx, dx, dy): a fresh path (unlocked)
\* with point idx displaced; pts are the get_points() of the source
\* path_cls(dem) with the points set and, the DEM being there, their z updated
CandidatePath(d, moved) ==
    Path(IF d = None THEN moved ELSE update_z_values(moved, d[1]), FALSE)

make_candidate(d, pts, idx, dx, dy) ==
    The({CandidatePath(d, moved) :
            moved \in {[i \in 1..Len(pts) |->
                          IF i = idx THEN <<pts[i][1] + dx, pts[i][2] + dy, pts[i][3]>>
                          ELSE pts[i]]}})

\* a mover that moves the center of the plan alone: the property of the
\* propagated candidate must tell it apart
PropagatedCenterOnly(pts, pl, ndx, ndy) ==
    [i \in 1..Len(pts) |->
        IF i = pl.center
        THEN <<pts[i][1] + pl.dx, pts[i][2] + pl.dy, pts[i][3]>>
        ELSE pts[i]]

\* the propagated candidate of plan pl on path p
\* lines 84-100: the center moves by (dx, dy), its two neighbours by the
\* fraction (ndx, ndy) of it
PropagatedPoints(pts, pl, ndx, ndy) ==
    [i \in 1..Len(pts) |->
        IF i = pl.center
        THEN <<pts[i][1] + pl.dx, pts[i][2] + pl.dy, pts[i][3]>>
        ELSE IF i = pl.center - 1 \/ i = pl.center + 1
        THEN <<pts[i][1] + ndx, pts[i][2] + ndy, pts[i][3]>>
        ELSE pts[i]]

PropagatedCandidate(d, p, pl) ==
    The({CandidatePath(d, moved) :
            moved \in {PropagatedPoints(pts, pl,
                                        RoundHalfEven(pl.dx * pl.fracNum, pl.fracDen),
                                        RoundHalfEven(pl.dy * pl.fracNum, pl.fracDen)) :
                       pts \in {get_points(p)}}})

\* a mover whose running plan is refreshed but never counted down: the
\* lifecycle property must tell it apart
on_move_accepted_uncounted(m) ==
    IF m.last_move = None THEN m
    ELSE [m EXCEPT !.propagation =
            Some([center |-> m.last_move[1][1], dx |-> m.last_move[1][2],
                  dy |-> m.last_move[1][3], fracNum |-> 1, fracDen |-> 2,
                  steps_remaining |-> PlanSteps])]

\* on_move_accepted(old_path, new_path) on mover m
on_move_accepted(m) ==
    IF m.last_move = None THEN m
    ELSE LET idx == m.last_move[1][1]
             dx == m.last_move[1][2]
             dy == m.last_move[1][3]
         IN  IF m.propagation # None /\ m.propagation[1].center = idx
             THEN LET left == Max(0, m.propagation[1].steps_remaining - 1)
                  IN  [m EXCEPT !.propagation =
                         IF left = 0 THEN None
                         ELSE Some([m.propagation[1] EXCEPT
                                      !.dx = dx, !.dy = dy, !.steps_remaining = left])]
             ELSE [m EXCEPT !.propagation =
                     Some([center |-> idx, dx |-> dx, dy |-> dy,
                           fracNum |-> 1, fracDen |-> 2,
                           steps_remaining |-> PlanSteps])]


\* ------------------------------------------------------------------------
\* optimize (solvers/simulatedAnneal.py), with the perturb call it drives
\* ------------------------------------------------------------------------

\* the iteration cap
MaxIter == 1000

\* the callback runs every CallbackEvery iterations
CallbackEvery == 10

\* desired_segments = ceil(total_len / (total_len * 0.05))
DesiredSegments(total_len) == CeilDiv(total_len * 100, total_len * 5)

EmptyPath == Path(<<>>, FALSE)

\* nothing observed yet on n perturbers: no cost evaluation by perturb, no
\* propagated candidate, no on_move_accepted call
NoObs(n) == [evals |-> 0, propagated |-> FALSE, streak |-> [k \in 1..n |-> 0],
             notified |-> None]

NoLoc == [src |-> EmptyPath, idx |-> 0, baseline_cost |-> 0, best_path |-> EmptyPath,
          best_cost |-> 0, isPath |-> TRUE, s |-> 0, climb_steps |-> 0,
          improved |-> FALSE, inner |-> 0, cand |-> EmptyPath]

\* a signal that is never seen: the property of the bounded response must
\* tell it apart
NeverStopped == FALSE

\* stop_event is not None and stop_event.is_set()
Stopped == hasStop /\ stopSet

\* a solver that returns the current path and cost: the cancellation
\* property must tell it apart
ReturnCurrent ==
    /\ pc' = "done"
    /\ result' = Some(<<current_path, current_cost>>)
    /\ refs' = Bind(refs, "result", "current_path" \in refs)

\* break; return best_path, best_cost
ReturnBest ==
    /\ pc' = "done"
    /\ result' = Some(<<best_path, best_cost>>)
    /\ refs' = Bind(refs, "result", "best_path" \in refs)

\* an exception leaves optimize
Raise ==
    /\ pc' = "raised"
    /\ UNCHANGED <<current_path, current_cost, best_path, best_cost, iter_count,
                   target_point_count, perturber, new_path, loc, cbCount, cbLast, delta,
                   result, perturbers, refs, obs>>

\* lines 25-46: the copies, the first cost, the counters
FirstCost(c) ==
    IF c = None THEN Raise
    ELSE /\ current_path' = shallow_copy(path)
         /\ current_cost' = c[1]
         /\ best_path' = shallow_copy(shallow_copy(path))
         /\ best_cost' = c[1]
         /\ iter_count' = 0
         /\ target_point_count' = get_point_count(path)
         /\ pc' = "top"
         /\ \E cur \in {shallow_copy_shares(TRUE)} :
               refs' = Bind(Bind(refs, "current_path", cur),
                            "best_path", shallow_copy_shares(cur))
         /\ UNCHANGED <<perturber, new_path, loc, cbCount, cbLast, delta, result,
                        perturbers, obs>>

Start ==
    /\ pc = "start"
    /\ \E c \in {Cost(cost_function, shallow_copy(path))} : FirstCost(c)
    /\ UNCHANGED <<inputVars, stopSet, fn>>

\* lines 48-63: the checkpoint at the top of an iteration, the choice of a
\* perturber (random.choice raises on an empty list) and the copy handed to it
LoopTop ==
    /\ pc = "top"
    /\ Stopped \/ iter_count < patience
    /\ IF Stopped
       THEN /\ ReturnBest
            /\ UNCHANGED <<perturber, loc, obs>>
       ELSE IF Len(perturbers) = 0
       THEN /\ pc' = "raised"
            /\ UNCHANGED <<perturber, loc, result, refs, obs>>
       ELSE /\ \E k \in 1..Len(perturbers) : perturber' = k
            /\ loc' = [NoLoc EXCEPT !.src = shallow_copy(current_path)]
            /\ refs' = Bind(refs, "path_copy", shallow_copy_shares("current_path" \in refs))
            /\ obs' = [obs EXCEPT !.evals = 0, !.propagated = FALSE]
            /\ pc' = "perturb"
            /\ UNCHANGED result
    /\ UNCHANGED <<current_path, current_cost, best_path, best_cost, iter_count,
                   target_point_count, new_path, cbCount, cbLast, delta, perturbers>>
    /\ UNCHANGED <<inputVars, stopSet, fn>>

\* perturb returns np to optimize: the path it was given (sameObject) or a
\* candidate it built
PerturbReturn(np, sameObject) ==
    /\ new_path' = np
    /\ refs' = Bind(refs, "new_path", sameObject /\ "path_copy" \in refs)
    /\ loc' = NoLoc
    /\ pc' = "densify"

\* where perturb goes when the sampling loop is over
AfterSampling(m) == IF 0 < m.max_climb_steps THEN "climb" ELSE "perturb_end"

optFrame == <<current_path, current_cost, best_path, best_cost, iter_count,
              target_point_count, perturber, cbCount, cbLast, delta, result>>

\* one more call of cost_function by the running perturb call
CostCall == [obs EXCEPT !.evals = obs.evals + 1]

\* perturb goes on to sample: the propagated candidates in a row are over
Sampling == [CostCall EXCEPT !.streak[perturber] = 0]

\* perturb hands out a propagated candidate
Propagating == [CostCall EXCEPT !.propagated = TRUE,
                                !.streak[perturber] = obs.streak[perturber] + 1]

\* the values random.randint(1, n - 2) is let to return (0-based 1..n-2 is
\* 2..n-1 here): the first, the middle and the last interior index
IdxDraws(n) == {i \in 2..(n - 1) : i = 2 \/ i = (n + 1) \div 2 \/ i = n - 1}

\* perturb, lines 62-106: the short path, the index, the baseline cost and the
\* propagated candidate
Baseline(m, idx, base) ==
    IF base = None THEN /\ pc' = "raised"
                        /\ obs' = CostCall
                        /\ UNCHANGED <<new_path, loc, perturbers, refs>>
    ELSE IF m.propagation # None /\ m.propagation[1].steps_remaining > 0
    THEN /\ perturbers' = [perturbers EXCEPT ![perturber].last_move =
                             Some(<<m.propagation[1].center, m.propagation[1].dx,
                                    m.propagation[1].dy>>)]
         /\ obs' = Propagating
         /\ PerturbReturn(PropagatedCandidate(dem, loc.src, m.propagation[1]), FALSE)
    ELSE /\ loc' = [loc EXCEPT !.idx = idx,
                               !.baseline_cost = base[1],
                               !.best_path = loc.src,
                               !.best_cost = base[1],
                               !.isPath = TRUE]
         /\ obs' = Sampling
         /\ pc' = IF 0 < m.samples THEN "sample" ELSE AfterSampling(m)
         /\ UNCHANGED <<new_path, perturbers, refs>>

PerturbEnter ==
    /\ pc = "perturb"
    /\ IF get_point_count(loc.src) < 3
       THEN /\ PerturbReturn(loc.src, TRUE)
            /\ UNCHANGED <<perturbers, obs>>
       ELSE \E idx \in IdxDraws(get_point_count(loc.src)),
                base \in {Cost(cost_function, loc.src)} :
              Baseline(perturbers[perturber], idx, base)
    /\ UNCHANGED optFrame
    /\ UNCHANGED <<inputVars, stopSet, fn>>

\* the offsets (dx, dy) a draw of angle and r can give, in coordinate units
Offsets == {<<-CoordScale, 0>>, <<CoordScale, 0>>, <<1, 0>>, <<0, CoordScale>>}

\* lines 113-125 and 157-171: the checkpoint of a loop body, the draw, the candidate
Draw(shrink, fromPts, next) ==
    IF Stopped
    THEN /\ PerturbReturn(loc.best_path, loc.isPath)
         /\ UNCHANGED <<perturbers, obs>>
    ELSE /\ \E off \in Offsets :
              /\ WithinRadius(off, loc.src, shrink)
              /\ loc' = [loc EXCEPT !.cand =
                            make_candidate(dem, fromPts, loc.idx, off[1], off[2])]
         /\ pc' = next
         /\ UNCHANGED <<new_path, perturbers, refs, obs>>

\* lines 126-146 and 172-193: the checkpoint before the evaluation, the cost of
\* the candidate (+inf when the cost function fails), the comparison
Compare(climbing, cv, orig, moved) ==
    IF cv < loc.best_cost
    THEN /\ perturbers' = [perturbers EXCEPT ![perturber].last_move =
                              Some(<<loc.idx, moved[1] - orig[1], moved[2] - orig[2]>>)]
         /\ loc' = [loc EXCEPT !.best_cost = cv, !.best_path = loc.cand,
                               !.isPath = FALSE,
                               !.improved = IF climbing THEN TRUE ELSE loc.improved,
                               !.s = IF climbing THEN loc.s ELSE loc.s + 1,
                               !.inner = IF climbing THEN loc.inner + 1 ELSE loc.inner]
    ELSE /\ loc' = [loc EXCEPT !.s = IF climbing THEN loc.s ELSE loc.s + 1,
                               !.inner = IF climbing THEN loc.inner + 1 ELSE loc.inner]
         /\ UNCHANGED perturbers

\* try: c = cost_function(cand) except Exception: c = float('inf')
OrInf(c) == The({IF v = None THEN Inf ELSE v[1] : v \in {c}})

Eval(climbing) ==
    \E cv \in {OrInf(Cost(cost_function, loc.cand))} :
        Compare(climbing, cv, get_points(loc.src)[loc.idx], loc.cand.points[loc.idx])

SampleDraw ==
    /\ pc = "sample"
    /\ Draw(1, get_points(loc.src), "sample_eval")
    /\ UNCHANGED optFrame
    /\ UNCHANGED <<inputVars, stopSet, fn>>

SampleEval ==
    /\ pc = "sample_eval"
    /\ IF Stopped
       THEN /\ PerturbReturn(loc.best_path, loc.isPath)
            /\ UNCHANGED <<perturbers, obs>>
       ELSE /\ Eval(FALSE)
            /\ obs' = CostCall
            /\ pc' = IF loc.s + 1 < perturbers[perturber].samples THEN "sample"
                     ELSE AfterSampling(perturbers[perturber])
            /\ UNCHANGED <<new_path, refs>>
    /\ UNCHANGED optFrame
    /\ UNCHANGED <<inputVars, stopSet, fn>>

RECURSIVE Pow2(_)
Pow2(n) == IF n = 0 THEN 1 ELSE 2 * Pow2(n - 1)

ClimbDraw ==
    /\ pc = "climb"
    /\ Draw(Pow2(loc.climb_steps + 1), get_points(loc.best_path), "climb_eval")
    /\ UNCHANGED optFrame
    /\ UNCHANGED <<inputVars, stopSet, fn>>

\* the end of a hill-climb round: lines 198-200 and the loop test of line 154
ClimbEval ==
    /\ pc = "climb_eval"
    /\ IF Stopped
       THEN /\ PerturbReturn(loc.best_path, loc.isPath)
            /\ UNCHANGED <<perturbers, obs>>
       ELSE /\ Eval(TRUE)
            /\ obs' = CostCall
            /\ LET m == perturbers[perturber]
                   roundOver == loc.inner + 1 >= Max(ClimbSamplesMin, m.samples \div 2)
                   again == loc'.improved /\ loc.climb_steps + 1 < m.max_climb_steps
               IN  pc' = IF ~roundOver THEN "climb"
                         ELSE IF again THEN "climb_next" ELSE "perturb_end"
            /\ UNCHANGED <<new_path, refs>>
    /\ UNCHANGED optFrame
    /\ UNCHANGED <<inputVars, stopSet, fn>>

\* climb_steps += 1; improved = False; the next round
ClimbNext ==
    /\ pc = "climb_next"
    /\ loc' = [loc EXCEPT !.climb_steps = loc.climb_steps + 1, !.improved = FALSE,
                          !.inner = 0]
    /\ pc' = "climb"
    /\ UNCHANGED <<new_path, perturbers, refs, obs>>
    /\ UNCHANGED optFrame
    /\ UNCHANGED <<inputVars, stopSet, fn>>

\* lines 202-205: _last_move is reset when nothing improved
PerturbEnd ==
    /\ pc = "perturb_end"
    /\ perturbers' = IF loc.isPath
                     THEN [perturbers EXCEPT ![perturber].last_move = None]
                     ELSE perturbers
    /\ PerturbReturn(loc.best_path, loc.isPath)
    /\ UNCHANGED obs
    /\ UNCHANGED optFrame
    /\ UNCHANGED <<inputVars, stopSet, fn>>

\* lines 71-85: the candidate is resegmented to at least max(target, 21) points
OrSame(reseg, np) == IF reseg # None THEN reseg[1] ELSE np

ToDesired(np, desired_points) ==
    The({OrSame(reseg, np) :
            reseg \in {IF desired_points > get_point_count(np)
                       THEN resegment(np, desired_points) ELSE None}})

DensifiedBy(np, target, total_len) ==
    IF total_len > 0
    THEN ToDesired(np, Max(target, DesiredSegments(total_len) + 1))
    ELSE np

\* a solver that simplifies the candidate after densifying it: the
\* point-count property must tell it apart
DensifiedThenSimplified(np, target) ==
    simplify(The({DensifiedBy(np, target, total_len) :
                     total_len \in {get_total_distance(np)}}), 1, 1000)

Densified(np, target) ==
    The({DensifiedBy(np, target, total_len) : total_len \in {get_total_distance(np)}})

Densify ==
    /\ pc = "densify"
    /\ new_path' = Densified(new_path, target_point_count)
    /\ refs' = IF new_path' = new_path THEN refs ELSE Bind(refs, "new_path", FALSE)
    /\ pc' = "check"
    /\ UNCHANGED <<loc, perturbers, obs>>
    /\ UNCHANGED optFrame
    /\ UNCHANGED <<inputVars, stopSet, fn>>

\* lines 87-93: the checkpoint before the cost of the candidate
PreEvalCheck ==
    /\ pc = "check"
    /\ IF Stopped THEN ReturnBest ELSE pc' = "eval" /\ UNCHANGED <<result, refs>>
    /\ UNCHANGED <<current_path, current_cost, best_path, best_cost, iter_count,
                   target_point_count, perturber, new_path, loc, cbCount, cbLast, delta,
                   perturbers, obs>>
    /\ UNCHANGED <<inputVars, stopSet, fn>>

\* a stricter rule, delta < 1: the acceptance property must tell it apart
AcceptsStrict(new_cost, cur_cost) == new_cost - cur_cost < CostScale

\* delta <= 1
Accepts(new_cost, cur_cost) == new_cost - cur_cost <= CostScale

\* a solver that does not count its iterations: the termination property
\* must tell it apart
EndIterationUncounted(bp, bc, it, called) ==
    /\ best_path' = bp
    /\ best_cost' = bc
    /\ iter_count' = iter_count
    /\ UNCHANGED <<cbCount, cbLast, result>>
    /\ pc' = "top"

\* a solver that hands the current path and cost to the callback: the
\* callback property must tell it apart
EndIterationReportingCurrent(bp, bc, it, called) ==
    /\ best_path' = bp
    /\ best_cost' = bc
    /\ iter_count' = it
    /\ cbCount' = IF called THEN cbCount + 1 ELSE cbCount
    /\ cbLast' = IF called THEN Some(<<current_path', current_cost', it>>) ELSE cbLast
    /\ IF it >= MaxIter
       THEN /\ pc' = "done"
            /\ result' = Some(<<bp, bc>>)
       ELSE /\ pc' = "top"
            /\ UNCHANGED result

\* lines 108-135: the best so far is in (bp, bc) and the iteration counted
\* as it: the callback and the iteration cap
EndIteration(bp, bc, it, called) ==
    /\ best_path' = bp
    /\ best_cost' = bc
    /\ iter_count' = it
    /\ cbCount' = IF called THEN cbCount + 1 ELSE cbCount
    /\ cbLast' = IF called THEN Some(<<bp, bc, it>>) ELSE cbLast
    /\ IF it >= MaxIter
       THEN /\ pc' = "done"
            /\ result' = Some(<<bp, bc>>)
       ELSE /\ pc' = "top"
            /\ UNCHANGED result

\* the names bound to the caller's object after lines 100-111 and the return
RefsAfter(accepted, improves, returns) ==
    LET r1 == IF accepted THEN Bind(refs, "current_path", "new_path" \in refs) ELSE refs
        r2 == IF improves
              THEN Bind(r1, "best_path", shallow_copy_shares("new_path" \in refs))
              ELSE r1
    IN  IF returns THEN Bind(r2, "result", "best_path" \in r2) ELSE r2

\* a solver that notifies the perturber before it adopts the candidate: the
\* notification property must tell it apart
NotifiedBeforeAdoption(k, old_current, np) ==
    Some([perturber |-> k, old_path |-> old_current, new_path |-> np,
          current_path |-> old_current])

\* lines 100-106: perturber.on_move_accepted(old_current, new_path) is called
\* with current_path already set to new_path
Notified(k, old_current, np) ==
    Some([perturber |-> k, old_path |-> old_current, new_path |-> np,
          current_path |-> np])

\* lines 97-127: acceptance, the notification of the perturber, the best so far
Decide(new_cost, accepted, improves) ==
    /\ current_path' = IF accepted THEN new_path ELSE current_path
    /\ current_cost' = IF accepted THEN new_cost ELSE current_cost
    /\ delta' = Some(new_cost - current_cost)
    /\ obs' = [obs EXCEPT !.notified = IF accepted
                                       THEN Notified(perturber, current_path, new_path)
                                       ELSE None]
    /\ perturbers' = [perturbers EXCEPT ![perturber] =
                        IF accepted THEN on_move_accepted(perturbers[perturber])
                        ELSE [perturbers[perturber] EXCEPT !.propagation = None]]
    /\ EndIteration(IF improves THEN shallow_copy(new_path) ELSE best_path,
                    IF improves THEN new_cost ELSE best_cost,
                    iter_count + 1,
                    callback /\ (iter_count + 1) % CallbackEvery = 0)
    /\ refs' = RefsAfter(accepted, improves, pc' = "done")
    /\ UNCHANGED <<target_point_count, perturber, new_path, loc>>

\* a solver that never records a best candidate: the property of the best
\* so far must tell it apart
CostOfCandidateUnrecorded(c) ==
    IF c = None THEN Raise
    ELSE Decide(c[1], Accepts(c[1], current_cost), FALSE)

\* a solver that records every accepted candidate as the best one: the
\* never-worse property must tell it apart
CostOfCandidateLatest(c) ==
    IF c = None THEN Raise
    ELSE Decide(c[1], Accepts(c[1], current_cost), Accepts(c[1], current_cost))

\* line 95: new_cost = cost_fn(new_path); a failure of the cost function
\* leaves optimize as an exception
CostOfCandidate(c) ==
    IF c = None THEN Raise
    ELSE Decide(c[1], Accepts(c[1], current_cost),
                Accepts(c[1], current_cost) /\ c[1] < best_cost)

\* lines 95-135: one evaluation of the candidate of this iteration
Evaluate ==
    /\ pc = "eval"
    /\ \E c \in {Cost(cost_function, new_path)} : CostOfCandidate(c)
    /\ UNCHANGED <<inputVars, stopSet, fn>>

\* the caller edits the path optimize returned to it: it deletes the point
\* after the first.  The edit is made to an object, and shows in every path
\* that is this object
CallerEdits ==
    /\ pc = "done"
    /\ \E r \in {delete_point(result[1][1], 2)} :
          /\ result' = Some(<<r.path, result[1][2]>>)
          /\ path' = IF "result" \in refs THEN r.path ELSE path
    /\ pc' = "edited"
    /\ UNCHANGED <<dem, cost_function, callback, hasStop, patience, given, stopSet, fn>>
    /\ UNCHANGED <<current_path, current_cost, best_path, best_cost, iter_count,
                   target_point_count, perturber, new_path, loc, cbCount, cbLast, delta,
                   perturbers, refs, obs>>

\* the host thread sets the stop event
SetStop ==
    /\ hasStop
    /\ ~stopSet
    /\ pc \notin {"done", "raised", "fn", "edited"}
    /\ stopSet' = TRUE
    /\ UNCHANGED <<inputVars, optVars, fn>>


\* ------------------------------------------------------------------------
\* Calls of resegment and simplify on their own
\* ------------------------------------------------------------------------

NoCall == [op |-> "none", arg |-> <<>>, out |-> None]

\* longest path handed to resegment and simplify
MaxFnLen == 4

\* most points asked for beyond MaxFnLen
MaxFnAdd == 3

\* tolerances handed to simplify, as <<numerator, denominator>>: the default
\* 1e-3 and a coarse one
Tolerances == {<<1, 1000>>, <<3, 2>>}

DoResegment ==
    /\ pc = "fn"
    /\ fn.op = "none"
    /\ \E target \in 0..(MaxFnLen + MaxFnAdd) :
          fn' = [op |-> "resegment", arg |-> <<target>>, out |-> resegment(path, target)]
    /\ UNCHANGED <<inputVars, optVars, stopSet>>

DoSimplify ==
    /\ pc = "fn"
    /\ fn.op = "none"
    /\ \E tol \in Tolerances :
          fn' = [op |-> "simplify", arg |-> tol, out |-> Some(simplify(path, tol[1], tol[2]))]
    /\ UNCHANGED <<inputVars, optVars, stopSet>>

\* a path along x on level ground, through the given x
LevelPath(xs) == Path([i \in 1..Len(xs) |-> <<xs[i], 0, 0>>], FALSE)

\* the candidates handed to the densification step: a path of two equal
\* segments; one of two segments of lengths 90 and 100; one of 21 points, 2
\* apart, whose 11th point has been moved by 2 across the path
DensifyCandidates ==
    {LevelPath(<<0, 20, 40>>),
     LevelPath(<<0, 90, 190>>),
     Path([i \in 1..21 |-> <<2 * (i - 1), IF i = 11 THEN 2 ELSE 0, 0>>], FALSE)}

\* lines 71-85 of optimize on the candidate np, target_point_count being the
\* point count of the path optimize was called with
DoDensify ==
    /\ pc = "fn"
    /\ fn.op = "none"
    /\ \E np \in DensifyCandidates, target \in {3, 21} :
          fn' = [op |-> "densify", arg |-> <<np, target>>, out |-> Densified(np, target)]
    /\ UNCHANGED <<inputVars, optVars, stopSet>>

\* ------------------------------------------------------------------------
\* Initial states and specifications
\* ------------------------------------------------------------------------

SeqsUpTo(S, n) == UNION {[1..k -> S] : k \in 0..n}

\* optimize not yet entered
OptIdle ==
    /\ current_path = EmptyPath
    /\ current_cost = 0
    /\ best_path = EmptyPath
    /\ best_cost = 0
    /\ iter_count = 0
    /\ target_point_count = 0
    /\ perturber = 0
    /\ new_path = EmptyPath
    /\ loc = NoLoc
    /\ cbCount = 0
    /\ cbLast = None
    /\ delta = None
    /\ result = None
    /\ given = path
    /\ refs = {}
    /\ obs = NoObs(Len(perturbers))

\* points of the paths handed to resegment and simplify
FnPoints == {<<0, 0, 0>>, <<1, 0, 0>>, <<2, 0, 0>>, <<3, 0, 0>>, <<1, 1, 1>>}

\* points whose x has no single precision value, and one that has
FnBigPoints == {<<F32Mant + 1, 0, 0>>, <<F32Mant + 3, 0, 0>>, <<F32Mant + 8, 0, 0>>}

InitFn ==
    /\ pc = "fn"
    /\ fn = NoCall
    /\ \E pts \in SeqsUpTo(FnPoints, MaxFnLen) \cup SeqsUpTo(FnBigPoints, MaxFnLen - 1) :
       \E lk \in BOOLEAN :
          /\ Len(pts) >= 2 => get_total_distance(Path(pts, lk)) > 0
          /\ path = Path(pts, lk)
    /\ dem = None
    /\ cost_function = [weight |-> CostScale, failZ |-> None]
    /\ callback = FALSE
    /\ hasStop = FALSE
    /\ stopSet = FALSE
    /\ patience = 0
    /\ perturbers = <<>>
    /\ OptIdle

NextFn == DoResegment \/ DoSimplify \/ DoDensify

SpecFn == InitFn /\ [][NextFn]_vars


\* ---- the operations of a path on their own ----

\* longest path operated on
MaxPathLen == 3

\* a DEM of three columns, of elevations 0, 1 and 2
PathDem == [width |-> 3, height |-> 1, elev |-> <<0, 1, 2>>]

\* points on the DEM with the z read from it, and one with a z of its own
PathPoints == {<<0, 0, 0>>, <<CoordScale, 0, 1>>, <<2 * CoordScale, 0, 2>>,
               <<CoordScale, 0, 3>>}

\* points whose z has no single precision value, and one that has
PathBigPoints == {<<0, 0, F32Mant + 1>>, <<CoordScale, 0, F32Mant + 3>>,
                  <<2 * CoordScale, 0, F32Mant + 8>>}

\* the shifts (dx, dy) asked for
Shifts == {<<CoordScale, 0>>, <<-CoordScale, 0>>, <<1, 0>>, <<0, CoordScale>>}

DoDeletePoint ==
    /\ pc = "fn"
    /\ fn.op = "none"
    /\ \E index \in 0..(MaxPathLen + 1) :
       \E r \in {delete_point(path, index)} :
          /\ fn' = [op |-> "delete_point", arg |-> <<index>>, out |-> r]
          /\ path' = r.path
    /\ UNCHANGED <<dem, cost_function, callback, hasStop, patience, given, optVars, stopSet>>

DoShiftPoint ==
    /\ pc = "fn"
    /\ fn.op = "none"
    /\ \E index \in 0..(MaxPathLen + 1), sh \in Shifts, update_z \in BOOLEAN :
       \E r \in {shift_point(path, dem, index, sh[1], sh[2], update_z)} :
          /\ fn' = [op |-> "shift_point", arg |-> <<index, sh[1], sh[2], update_z>>,
                    out |-> r]
          /\ path' = r.path
    /\ UNCHANGED <<dem, cost_function, callback, hasStop, patience, given, optVars, stopSet>>

\* the derived queries of a path
DoMeasure ==
    /\ pc = "fn"
    /\ fn.op = "none"
    /\ fn' = [op |-> "measure", arg |-> <<>>,
              out |-> [segments |-> get_segments(path),
                       total_distance |-> get_total_distance(path),
                       gain_loss |-> get_elevation_gain_loss(path)]]
    /\ UNCHANGED <<inputVars, optVars, stopSet>>

InitPath ==
    /\ pc = "fn"
    /\ fn = NoCall
    /\ \E pts \in SeqsUpTo(PathPoints, MaxPathLen) \cup SeqsUpTo(PathBigPoints, MaxPathLen) :
       \E lk \in BOOLEAN : path = Path(pts, lk)
    /\ dem \in {None, Some(PathDem)}
    /\ cost_function = [weight |-> CostScale, failZ |-> None]
    /\ callback = FALSE
    /\ hasStop = FALSE
    /\ stopSet = FALSE
    /\ patience = 0
    /\ perturbers = <<>>
    /\ OptIdle

NextPath == DoDeletePoint \/ DoShiftPoint \/ DoMeasure

SpecPath == InitPath /\ [][NextPath]_vars


\* ---- consolidate_consecutive_clusters on its own (SpecMerge) ----

\* longest path consolidated
MaxMergeLen == 4

RECURSIVE Factorial(_)
Factorial(n) == IF n <= 1 THEN 1 ELSE n * Factorial(n - 1)

\* the spacing of the points, in coordinate units: the mean of up to
\* MaxMergeLen coordinates is whole
MergeUnit == Factorial(MaxMergeLen)

\* a DEM of MergeUnit columns and one row, of elevation 5 throughout
MergeDem == [width |-> MergeUnit, height |-> 1, elev |-> [i \in 1..MergeUnit |-> 5]]

\* consolidate_consecutive_clusters(max_distance), max_distance one or two
\* units
DoConsolidate ==
    /\ pc = "fn"
    /\ fn.op = "none"
    /\ \E max_distance \in {MergeUnit, 2 * MergeUnit} :
          /\ fn' = [op |-> "consolidate", arg |-> <<max_distance>>, out |-> None]
          /\ path' = consolidate_consecutive_clusters(path, dem, max_distance)
    /\ UNCHANGED <<dem, cost_function, callback, hasStop, patience, given, optVars, stopSet>>

\* the paths are of points one and two units apart along x, and one off the
\* row of the DEM
InitMerge ==
    /\ pc = "fn"
    /\ fn = NoCall
    /\ \E pts \in SeqsUpTo({<<0, 0, 0>>, <<MergeUnit, 0, MergeUnit>>,
                            <<2 * MergeUnit, 0, 0>>, <<4 * MergeUnit, 0, MergeUnit>>,
                            <<MergeUnit, MergeUnit, 0>>}, MaxMergeLen),
          lk \in BOOLEAN : path = Path(pts, lk)
    /\ dem \in {None, Some(MergeDem)}
    /\ cost_function = [weight |-> CostScale, failZ |-> None]
    /\ callback = FALSE
    /\ hasStop = FALSE
    /\ stopSet = FALSE
    /\ patience = 0
    /\ perturbers = <<>>
    /\ OptIdle

SpecMerge == InitMerge /\ [][DoConsolidate]_vars


\* ---- the cost functions on their own (SpecCost) ----

\* longest path costed
MaxCostLen == 4

\* largest time budget, in hours
MaxTime == 2

DoRe3 ==
    /\ pc = "fn"
    /\ fn.op = "none"
    /\ \E time \in 0..MaxTime :
          /\ Len(path.points) >= 2 => time > 0
          /\ fn' = [op |-> "re3", arg |-> <<time>>, out |-> re3(path, time)]
    /\ UNCHANGED <<inputVars, optVars, stopSet>>

DoAcsm ==
    /\ pc = "fn"
    /\ fn.op = "none"
    /\ \E time \in 0..MaxTime :
          fn' = [op |-> "acsm_equation", arg |-> <<time>>, out |-> acsm_equation(path, time)]
    /\ UNCHANGED <<inputVars, optVars, stopSet>>

\* the paths are of level points 0, 1, 2 and 4 cells along x
InitCost ==
    /\ pc = "fn"
    /\ fn = NoCall
    /\ \E pts \in SeqsUpTo({<<0, 0, 0>>, <<CoordScale, 0, 0>>, <<2 * CoordScale, 0, 0>>,
                            <<4 * CoordScale, 0, 0>>}, MaxCostLen),
          lk \in BOOLEAN :
          /\ \A i \in 1..(Len(pts) - 1) : pts[i] # pts[i + 1]
          /\ path = Path(pts, lk)
    /\ dem = None
    /\ cost_function = [weight |-> CostScale, failZ |-> None]
    /\ callback = FALSE
    /\ hasStop = FALSE
    /\ stopSet = FALSE
    /\ patience = 0
    /\ perturbers = <<>>
    /\ OptIdle

NextCost == DoRe3 \/ DoAcsm

SpecCost == InitCost /\ [][NextCost]_vars


\* ---- optimize on a route across a ridge terrain ----

\* iterations the host lets a search on a route run before it sets the stop event
MaxRun == 2

\* samples of the movers
Samples == 2

\* max_climb_steps of the movers
MaxClimbSteps == 2

\* columns of the DEM
DemWidth == 21

\* a terrain of height 0 with elevation h on the columns in `ridge`
Terrain(ridge, h, spike) ==
    [x \in 1..DemWidth |-> IF (x - 1) \in ridge THEN h
                           ELSE IF (x - 1) \in spike THEN 2 ELSE 0]

MidColumn == (DemWidth - 1) \div 2

\* flat ground; a ridge under the middle of the route, of height 1 or 2; a
\* ridge next to it; a ridge under it with a spike half way to it
Terrains == {Terrain({}, 0, {}), Terrain({MidColumn}, 1, {}),
             Terrain({MidColumn + 1}, 1, {}), Terrain({MidColumn}, 2, {}),
             Terrain({MidColumn}, 1, {MidColumn \div 2})}

\* xyzPath(dem) filled by add_point(x, y): z is read from the DEM
RouteOn(d, xs, lk) ==
    Path([i \in 1..Len(xs) |-> <<xs[i], 0, get_elevation(d, Trunc(xs[i]), 0)[1]>>], lk)

\* the x (in coordinate units) of the routes: both ends of the DEM and its middle
RouteXs == {<<0, MidColumn * CoordScale, (DemWidth - 1) * CoordScale>>}

CostFunctions == {[weight |-> CostScale, failZ |-> None],
                  [weight |-> CostScale + 1, failZ |-> None],
                  [weight |-> CostScale \div 4, failZ |-> None],
                  [weight |-> CostScale, failZ |-> Some(2)]}

Init ==
    /\ pc = "start"
    /\ fn = NoCall
    /\ \E t \in Terrains :
          /\ dem = Some([width |-> DemWidth, height |-> 1, elev |-> t])
          /\ \E xs \in RouteXs, lk \in BOOLEAN : path = RouteOn(dem[1], xs, lk)
    /\ cost_function \in CostFunctions
    /\ callback = TRUE
    /\ hasStop = TRUE
    /\ stopSet = FALSE
    /\ patience = MaxRun
    /\ perturbers = <<NewMover(Samples, MaxClimbSteps)>>
    /\ OptIdle

Next ==
    \/ Start
    \/ LoopTop
    \/ PerturbEnter
    \/ SampleDraw
    \/ SampleEval
    \/ ClimbDraw
    \/ ClimbEval
    \/ ClimbNext
    \/ PerturbEnd
    \/ Densify
    \/ PreEvalCheck
    \/ Evaluate
    \/ SetStop
    \/ CallerEdits

Spec == Init /\ [][Next]_vars

\* ------------------------------------------------------------------------
\* Full runs of optimize: up to the iteration cap, on inputs that keep an
\* iteration small.  The movers draw no samples (samples = 0,
\* max_climb_steps = 0); one of them comes from an earlier run and still
\* holds the propagation plan that run left in it.
\* ------------------------------------------------------------------------

FlatDem == [width |-> DemWidth, height |-> 1, elev |-> Terrain({}, 0, {})]

RidgeDem == [width |-> DemWidth, height |-> 1, elev |-> Terrain({MidColumn + 1}, 1, {})]

UsedMover ==
    [NewMover(0, 0) EXCEPT !.propagation =
        Some([center |-> 2, dx |-> CoordScale, dy |-> 0, fracNum |-> 1, fracDen |-> 2,
              steps_remaining |-> PlanSteps])]

\* <<DEM, path, mover, callback given, stop event given>>
LongInputs ==
    {<<FlatDem, Path(<<<<0, 0, 0>>>>, FALSE), NewMover(0, 0), FALSE, FALSE>>,
     <<FlatDem, RouteOn(FlatDem, CHOOSE xs \in RouteXs : TRUE, FALSE), NewMover(0, 0),
       TRUE, FALSE>>,
     <<FlatDem, RouteOn(FlatDem, CHOOSE xs \in RouteXs : TRUE, FALSE), NewMover(0, 0),
       FALSE, TRUE>>,
     <<RidgeDem, RouteOn(RidgeDem, CHOOSE xs \in RouteXs : TRUE, TRUE), UsedMover,
       TRUE, TRUE>>}

InitLong ==
    /\ pc = "start"
    /\ fn = NoCall
    /\ \E in \in LongInputs :
          /\ dem = Some(in[1])
          /\ path = in[2]
          /\ perturbers = <<in[3]>>
          /\ callback = in[4]
          /\ hasStop = in[5]
    /\ cost_function = [weight |-> CostScale, failZ |-> None]
    /\ stopSet = FALSE
    /\ patience = MaxIter
    /\ OptIdle

\* the steps of the thread that runs optimize
RunLong ==
    \/ Start
    \/ LoopTop
    \/ PerturbEnter
    \/ PerturbEnd
    \/ Densify
    \/ PreEvalCheck
    \/ Evaluate

NextLong ==
    \/ RunLong
    \/ SetStop

\* the thread keeps running: every call it makes returns
SpecLong == InitLong /\ [][NextLong]_vars /\ WF_vars(RunLong)

\* ------------------------------------------------------------------------
\* Runs of optimize long enough for a propagation plan to be started, used
\* up and followed by sampling, with two movers that draw one sample each
\* and do not hill-climb.
\* ------------------------------------------------------------------------

\* iterations of these runs
PlanRun == 6

\* the route over a ridge, and over a ridge with a spike half way to it
PlanTerrains == {Terrain({MidColumn}, 1, {}), Terrain({MidColumn}, 1, {MidColumn \div 2})}

InitPlan ==
    /\ pc = "start"
    /\ fn = NoCall
    /\ \E t \in PlanTerrains :
          /\ dem = Some([width |-> DemWidth, height |-> 1, elev |-> t])
          /\ \E xs \in RouteXs : path = RouteOn(dem[1], xs, TRUE)
    /\ cost_function = [weight |-> CostScale, failZ |-> None]
    /\ callback = FALSE
    /\ hasStop = FALSE
    /\ stopSet = FALSE
    /\ patience = PlanRun
    /\ perturbers = <<NewMover(1, 0), NewMover(1, 0)>>
    /\ OptIdle

NextPlan ==
    \/ Start
    \/ LoopTop
    \/ PerturbEnter
    \/ SampleDraw
    \/ SampleEval
    \/ PerturbEnd
    \/ Densify
    \/ PreEvalCheck
    \/ Evaluate

SpecPlan == InitPlan /\ [][NextPlan]_vars

\* ------------------------------------------------------------------------
\* Runs of optimize on paths of fewer than 3 points (SpecShort)
\* ------------------------------------------------------------------------

\* the paths of 0, 1 and 2 points, of the start and of the ridge with the z
\* an add_point(x, y, z) call gave it (0) or the z of the DEM (1)
ShortPaths ==
    LET ShortPoints == {<<0, 0, 0>>, <<MidColumn * CoordScale, 0, 0>>,
                        <<MidColumn * CoordScale, 0, 1>>}
    IN  {Path(pts, lk) : pts \in {<<>>} \cup {<<a>> : a \in ShortPoints}
                                        \cup {<<a, b>> : a, b \in ShortPoints},
                         lk \in BOOLEAN}

\* the mover is fresh from its constructor, or an earlier optimize call left
\* it with a plan of 2 steps for its point at index 1
InitShort ==
    /\ pc = "start"
    /\ fn = NoCall
    /\ dem = Some([width |-> DemWidth, height |-> 1, elev |-> Terrain({MidColumn}, 1, {})])
    /\ path \in ShortPaths
    /\ cost_function = [weight |-> CostScale, failZ |-> None]
    /\ callback = FALSE
    /\ hasStop = FALSE
    /\ stopSet = FALSE
    /\ patience = MaxRun
    /\ \E m \in {NewMover(1, 0),
                [NewMover(1, 0) EXCEPT
                   !.last_move = Some(<<2, -CoordScale, 0>>),
                   !.propagation = Some([center |-> 2, dx |-> -CoordScale, dy |-> 0,
                                         fracNum |-> 1, fracDen |-> 2,
                                         steps_remaining |-> 2])]} :
          perturbers = <<m>>
    /\ OptIdle

SpecShort == InitShort /\ [][NextPlan]_vars

\* ------------------------------------------------------------------------
\* Properties of optimize (Spec, SpecLong)
\* ------------------------------------------------------------------------

\* the cost of the candidate under evaluation
CandidateCost == Cost(cost_function, new_path)[1]

\* the cost of the input path
InputCost == Cost(cost_function, path)[1]

\* an iteration completes
IterationEnds == pc = "eval" /\ pc' \in {"top", "done"}

\* C1: in every iteration the candidate becomes the current path, and its
\* cost the current cost, if and only if candidate cost - current cost <= 1.0;
\* otherwise current path and current cost stay as they are.
C1_AcceptanceRule ==
    [][IterationEnds =>
         IF CandidateCost - current_cost <= CostScale
         THEN current_path' = new_path /\ current_cost' = CandidateCost
         ELSE UNCHANGED <<current_path, current_cost>>]_vars

\* an iteration has just accepted a candidate costing exactly 1.0 more
C1_Witness ==
    /\ pc = "top"
    /\ delta = Some(CostScale)
    /\ current_path = new_path
    /\ current_cost = best_cost + CostScale

\* C2: the best cost recorded, and so the best cost returned, is never above
\* the cost of the input path, whether the run ends by the cap or by
\* cancellation.
C2_NeverWorse ==
    /\ pc \notin {"start", "raised", "fn"} => best_cost <= InputCost
    /\ pc = "done" => result # None /\ result[1][2] <= InputCost

\* a run cancelled after a worsening candidate was accepted returns a cost
\* below the input's and below the current one
C2_Witness ==
    /\ pc = "done"
    /\ stopSet
    /\ result[1][2] < InputCost
    /\ result[1][2] < current_cost

\* C3: the current path never loses points from one iteration to the next,
\* and the path returned has at least as many points as the input path.
C3_PointCountKept ==
    /\ [][pc # "start" =>
             get_point_count(current_path') >= get_point_count(current_path)]_vars
    /\ [](pc = "done" =>
             get_point_count(result[1][1]) >= get_point_count(path))

\* a run has returned a path densified beyond the input's point count
C3_Witness ==
    /\ pc = "done"
    /\ iter_count >= 1
    /\ get_point_count(result[1][1]) > get_point_count(path)

\* the signal is seen set at one of optimize's two checkpoints
ObservedAtCheckpoint == pc \in {"top", "check"} /\ Stopped

\* C5: a signal seen set at the top of an iteration or before the candidate's
\* evaluation ends optimize without raising, with the candidate in progress
\* neither evaluated nor adopted, returning the best path and cost recorded;
\* a signal set before the call makes it return a copy of the input path and
\* the input's cost after no iteration and no callback.
C5_CancellationReturns ==
    /\ [][ObservedAtCheckpoint =>
             /\ pc' = "done"
             /\ result' = Some(<<best_path, best_cost>>)
             /\ UNCHANGED <<current_path, current_cost, best_path, best_cost,
                            iter_count, cbCount, delta>>]_vars
    /\ []((pc = "start" /\ stopSet) =>
             [](/\ iter_count = 0
                /\ cbCount = 0
                /\ pc \notin {"perturb", "densify", "check", "eval"}
                /\ pc = "done" => result = Some(<<shallow_copy(path), InputCost>>)))

\* cancelled before the evaluation of a candidate cheaper than the current
\* path: the candidate is dropped and the best recorded is returned
C5_Witness ==
    /\ pc = "done"
    /\ stopSet
    /\ new_path # EmptyPath
    /\ delta = None
    /\ CandidateCost < current_cost
    /\ result = Some(<<shallow_copy(path), InputCost>>)

\* how far optimize is within an iteration (the movers of these runs draw no
\* samples)
StepsLeft ==
    CASE pc = "top" -> 6
      [] pc = "perturb" -> 5
      [] pc = "perturb_end" -> 4
      [] pc = "densify" -> 3
      [] pc = "check" -> 2
      [] pc = "eval" -> 1
      [] OTHER -> 0

\* a bound on the steps optimize has left before it returns
Variant ==
    IF pc = "start" THEN 7 * (MaxIter + 1)
    ELSE IF pc \in {"done", "raised"} THEN 0
    ELSE 7 * (MaxIter - iter_count) + StepsLeft

\* C4: optimize terminates: it never completes more than 1000 iterations, it
\* completes exactly 1000 when the signal is never set, and what it returns is
\* the best path and best cost recorded.  Termination is stated by a variant:
\* until optimize has returned it has a step to take, and each of its steps
\* lowers a natural number.
C4_Terminates ==
    /\ [](iter_count <= MaxIter)
    /\ [](pc = "done" => result = Some(<<best_path, best_cost>>))
    /\ [](pc = "done" /\ ~stopSet => iter_count = MaxIter)
    /\ [](Variant >= 0 /\ (pc # "done" => ENABLED RunLong))
    /\ [][IF stopSet' = stopSet THEN Variant' < Variant ELSE Variant' = Variant]_vars
    /\ <>(pc = "done")

\* a run nobody cancelled has returned after its 1000th iteration
C4_Witness ==
    /\ pc = "done"
    /\ ~stopSet
    /\ iter_count = MaxIter
    /\ result = Some(<<best_path, best_cost>>)

\* the callback is due at the end of this iteration
CallbackDue == IterationEnds /\ callback /\ iter_count' % 10 = 0 /\ iter_count' > 0

\* C6: the callback runs once at the end of each iteration whose count is a
\* positive multiple of 10, with the best path, the best cost and the count as
\* they are then, and at no other time.
C6_CallbackEveryTenth ==
    /\ [][IF CallbackDue
          THEN /\ cbCount' = cbCount + 1
               /\ cbLast' = Some(<<best_path', best_cost', iter_count'>>)
          ELSE UNCHANGED <<cbCount, cbLast>>]_vars
    /\ [](cbCount = IF callback THEN iter_count \div 10 ELSE 0)

\* the second callback has just run, the best cost below the current one
C6_Witness ==
    /\ pc = "top"
    /\ iter_count = 20
    /\ cbCount = 2
    /\ cbLast = Some(<<best_path, best_cost, 20>>)
    /\ best_cost < current_cost
    /\ best_path # current_path

\* C7 (as claimed): when the cost function fails on the candidate that
\* optimize evaluates, the failure is caught: the iteration completes as a
\* rejection, current and best path and cost unchanged, and the search goes on.
C7_FailureIsCaught ==
    [][(pc = "eval" /\ Cost(cost_function, new_path) = None) =>
         /\ pc' \in {"top", "done"}
         /\ iter_count' = iter_count + 1
         /\ UNCHANGED <<current_path, current_cost, best_path, best_cost>>]_vars

\* C13: optimize never modifies the path it is given: all along, and after
\* it has returned by the cap or by cancellation, the caller's path has the
\* points and the locked flag it was called with; what optimize returns is
\* another object, so that an edit of the returned path leaves the caller's
\* path as it was.
C13_InputUntouched ==
    /\ path = given
    /\ pc = "done" => "result" \notin refs

\* optimize returned a path equal to its input, the caller deleted a point
\* of it, and the input still has the point
C13_Witness ==
    /\ pc = "edited"
    /\ result[1][1] = Path(RemoveAt(given.points, 2), given.locked)
    /\ path = given

\* the (x, y) of a point
XY(pt) == <<pt[1], pt[2]>>

\* path p starts and ends where path q does
SameEnds(p, q) ==
    /\ Len(p.points) >= 1
    /\ XY(p.points[1]) = XY(q.points[1])
    /\ XY(p.points[Len(p.points)]) = XY(q.points[Len(q.points)])

\* C15 (as claimed): when the input path is locked and has 3 points or more,
\* every current path and the best path returned start and end at the (x, y)
\* the input path starts and ends at.
C15_LockedEndsStay ==
    (given.locked /\ Len(given.points) >= 3) =>
        /\ current_path # EmptyPath => SameEnds(current_path, given)
        /\ pc = "done" => SameEnds(result[1][1], given)

\* the propagation plan of the perturber of this iteration
Plan == perturbers[perturber].propagation

\* the move (idx, dx, dy) the perturber of this iteration recorded
LastMove == perturbers[perturber].last_move

\* this step completes an iteration by accepting its candidate
AcceptingStep == IterationEnds /\ CandidateCost - current_cost <= CostScale

\* this step accepts a candidate and on_move_accepted starts a new plan
PlanStarts ==
    /\ AcceptingStep
    /\ LastMove # None
    /\ Plan = None \/ Plan[1].center # LastMove[1][1]

\* where the move (idx, dx, dy) put point idx of path p
MovedTo(p, move) ==
    <<get_points(p)[move[1]][1] + move[2], get_points(p)[move[1]][2] + move[3]>>

\* C18 (as claimed): when on_move_accepted starts a new plan, the center of
\* the plan is the index, in the path adopted as current, of the point just
\* moved, also when the candidate was resegmented before it was adopted.
C18_CenterIsMovedPoint ==
    [][PlanStarts =>
         /\ Plan' # None
         /\ Plan'[1].center <= Len(current_path'.points)
         /\ XY(current_path'.points[Plan'[1].center]) = MovedTo(current_path, LastMove[1])]_vars

\* this step is the return of a perturb call to optimize
PerturbReturns ==
    /\ pc \in {"perturb", "sample", "sample_eval", "climb", "climb_eval", "perturb_end"}
    /\ pc' = "densify"

\* points out are the points src but for at most one of them, which is
\* neither the first nor the last
OneInteriorPointMoved(src, out) ==
    /\ Len(out) = Len(src)
    /\ \/ out = src
       \/ \E idx \in 2..(Len(src) - 1) :
             \A i \in 1..Len(src) : i # idx => out[i] = src[i]

\* C20 (as claimed): a perturb call made while no plan is active returns a
\* path of as many points as the source path, which differs from it in at
\* most one point, an interior one; every other point has the x, y and z it
\* has in the source path.
C20_OnePointRelocated ==
    [][(PerturbReturns /\ ~obs'.propagated) =>
         OneInteriorPointMoved(loc.src.points, new_path'.points)]_vars

\* perturb is about to evaluate the cost function: the baseline, a sample or
\* a hill-climb candidate
BeforeEvaluation == pc \in {"perturb", "sample_eval", "climb_eval"}

\* C21: inside perturb the cancellation signal is checked before each cost
\* evaluation, the baseline included: when the signal is set, perturb
\* returns the best candidate so far (the source path if none improved) and
\* does not make that evaluation.
C21_CheckedBeforeEachEvaluation ==
    [][(BeforeEvaluation /\ Stopped) =>
         /\ obs'.evals = obs.evals
         /\ pc' = "densify"
         /\ new_path' = IF pc = "perturb" THEN loc.src ELSE loc.best_path]_vars

\* the DEM has no elevation for point pt
Unsampled(pt) ==
    dem # None /\ get_elevation(dem[1], Trunc(pt[1]), Trunc(pt[2])) = None

\* perturb evaluates a sample or hill-climb candidate whose displaced point
\* the DEM has no elevation for
EvaluatesUnsampled ==
    /\ pc \in {"sample_eval", "climb_eval"}
    /\ ~Stopped
    /\ Unsampled(loc.cand.points[loc.idx])

\* C22: a candidate whose displaced point is outside the DEM costs +inf:
\* perturb never takes it as its best candidate, and optimize never adopts
\* a candidate with such a point; the search goes on.
C22_UnsampledNeverWins ==
    [][/\ EvaluatesUnsampled => /\ loc'.best_path = loc.best_path
                                 /\ loc'.best_cost = loc.best_cost
                                 /\ pc' # "raised"
       /\ (IterationEnds /\ \E i \in 1..Len(new_path.points) :
                                Unsampled(new_path.points[i])) =>
             current_path' = current_path]_vars

\* perturb is called on a path of fewer than 3 points
ShortPathGiven == pc = "perturb" /\ Len(loc.src.points) < 3

\* C23: perturb on a path of fewer than 3 points returns that path as it
\* is (its z are not read again from the DEM), evaluates no cost and leaves
\* the mover, its plan included, as it was.
C23_ShortPathReturned ==
    [][ShortPathGiven =>
         /\ pc' = "densify"
         /\ new_path' = loc.src
         /\ obs' = obs
         /\ obs.evals = 0
         /\ perturbers' = perturbers]_vars

\* perturb returned a path of 2 points whose second point has a z the DEM
\* does not give, on a mover that holds a plan
C23_Witness ==
    /\ pc = "densify"
    /\ Len(new_path.points) = 2
    /\ Some(new_path.points[2][3]) #
          get_elevation(dem[1], Trunc(new_path.points[2][1]), Trunc(new_path.points[2][2]))
    /\ obs.evals = 0
    /\ perturbers[perturber].propagation # None

\* the signal has been set
SignalSet == hasStop /\ stopSet

\* this step calls the cost function: the first cost, the baseline or a
\* candidate of perturb, the candidate of the iteration
EvaluationStep ==
    \/ pc = "start" /\ pc' # "start"
    \/ pc \in {"perturb", "sample_eval", "climb_eval"} /\ obs'.evals = obs.evals + 1
    \/ pc = "eval" /\ pc' # "eval"

\* the cost evaluations optimize can still start once the signal is set:
\* the one it is about to make without a checkpoint before it
EvaluationsLeft == IF pc \in {"start", "perturb", "eval"} THEN 1 ELSE 0

\* the checkpoints of optimize and of perturb
AtCheckpoint == pc \in {"top", "check", "sample", "sample_eval", "climb", "climb_eval"}

\* C28: once the signal is set, optimize starts at most one more cost
\* evaluation, one whose checkpoint it had passed, and adopts at most one
\* more candidate, the one so evaluated; at its next checkpoint it returns
\* (perturb to optimize, optimize to its caller), and it starts no iteration
\* at a boundary where the signal is set.
C28_BoundedResponse ==
    [][SignalSet =>
         /\ EvaluationStep => EvaluationsLeft = 1 /\ EvaluationsLeft' = 0
         /\ EvaluationsLeft' <= EvaluationsLeft
         /\ (pc # "start" /\ current_path' # current_path) => pc = "eval"
         /\ AtCheckpoint => pc' = IF pc \in {"top", "check"} THEN "done" ELSE "densify"
         /\ pc = "top" => iter_count' = iter_count /\ pc' # "perturb"]_vars

\* the signal was set while the candidate of the first iteration was being
\* evaluated: the candidate has been adopted and optimize is at the
\* boundary, about to return
C28_Witness ==
    /\ pc = "top"
    /\ SignalSet
    /\ iter_count = 1
    /\ delta # None
    /\ current_path = new_path
    /\ current_path # shallow_copy(path)

\* optimize is in its loop or has returned
InLoop == pc \notin {"start", "raised", "fn"}

\* the candidate of the completing iteration is accepted and strictly
\* cheaper than the best recorded
NewBest == AcceptingStep /\ CandidateCost < best_cost

\* C29: at every iteration boundary best cost <= current cost; the best cost
\* starts at the initial cost and never rises, and an accepted candidate
\* lowers it to its own cost exactly when it is strictly cheaper, so it is
\* the minimum of the initial cost and the accepted costs; the best path is
\* the path that cost was computed for, replaced only then; and an accepted
\* move raises the current cost by at most 1.0.
C29_BestIsMinimum ==
    /\ [](InLoop => /\ best_cost <= current_cost
                     /\ Cost(cost_function, best_path) = Some(best_cost))
    /\ [][(pc = "start" /\ pc' = "top") =>
             best_cost' = InputCost /\ current_cost' = InputCost]_vars
    /\ [][IterationEnds =>
             /\ best_cost' = IF NewBest THEN CandidateCost ELSE best_cost
             /\ best_path' = IF NewBest THEN new_path ELSE best_path
             /\ best_cost' <= best_cost
             /\ current_cost' - current_cost <= CostScale]_vars
    /\ [][(InLoop /\ ~IterationEnds) =>
             UNCHANGED <<best_cost, best_path, current_cost>>]_vars

\* at the second boundary the best cost is below the input's, recorded in
\* the first iteration, and the current cost is above it after an accepted
\* worsening
C29_Witness ==
    /\ pc = "top"
    /\ iter_count = 2
    /\ best_cost < InputCost
    /\ best_cost < current_cost
    /\ delta # None /\ delta[1] > 0 /\ delta[1] <= CostScale
    /\ best_path # current_path

\* C30 (as claimed): the locked flag survives optimization: every current
\* path of the run and the path optimize returns have the locked value of
\* the input path, whichever candidates were adopted.
C30_LockedFlagSurvives ==
    /\ current_path # EmptyPath => current_path.locked = given.locked
    /\ pc = "done" => result[1][1].locked = given.locked

\* ------------------------------------------------------------------------
\* Properties of the propagation plan (SpecPlan)
\* ------------------------------------------------------------------------

\* perturb is being called on a mover that holds a plan with steps remaining
PlanActive == pc = "perturb" /\ Plan # None /\ Plan[1].steps_remaining > 0

\* the displacement the plan pl gives point i
PlanShift(pl, i) ==
    IF i = pl.center THEN <<pl.dx, pl.dy>>
    ELSE IF i = pl.center - 1 \/ i = pl.center + 1
    THEN <<RoundHalfEven(pl.dx * pl.fracNum, pl.fracDen),
           RoundHalfEven(pl.dy * pl.fracNum, pl.fracDen)>>
    ELSE <<0, 0>>

\* the points out are the points src, each displaced in (x, y) as plan pl says
IsPropagated(src, pl, out) ==
    /\ Len(out) = Len(src)
    /\ \A i \in 1..Len(src) :
          XY(out[i]) = <<src[i][1] + PlanShift(pl, i)[1], src[i][2] + PlanShift(pl, i)[2]>>

RejectingStep == IterationEnds /\ CandidateCost - current_cost > CostScale

\* the on_move_accepted call of an accepting step: on perturber k, with the
\* path that was current and the candidate, the candidate being current
AdoptedThenNotified(k) ==
    /\ current_path' = new_path
    /\ obs'.notified = Some([perturber |-> k, old_path |-> current_path,
                             new_path |-> new_path, current_path |-> current_path'])
    /\ perturbers'[k] = on_move_accepted(perturbers[k])

\* the next perturb call is made right after a rejection
PerturbAfterRejection ==
    pc = "top" /\ pc' = "perturb" /\ delta # None /\ delta[1] > CostScale

\* C16: an iteration calls on_move_accepted on the perturber that produced
\* the candidate exactly when the candidate is accepted, and after the
\* candidate became the current path; a rejection makes no call and leaves
\* that perturber without a plan, which is still so when the next perturb
\* call is made; the other perturbers are as they were.
C16_NotifiedIffAccepted ==
    [][/\ AcceptingStep => AdoptedThenNotified(perturber)
       /\ RejectingStep => /\ obs'.notified = None
                            /\ current_path' = current_path
                            /\ perturbers'[perturber].propagation = None
       /\ IterationEnds => \A j \in 1..Len(perturbers) :
                               j # perturber => perturbers'[j] = perturbers[j]
       /\ PerturbAfterRejection => Plan = None]_vars

\* a propagated candidate was accepted and its perturber notified with the
\* candidate as current path, while the other perturber holds a plan
C16_Witness ==
    /\ pc = "top"
    /\ delta # None /\ delta[1] <= CostScale
    /\ obs.propagated
    /\ obs.notified # None
    /\ obs.notified[1].perturber = perturber
    /\ obs.notified[1].current_path = current_path
    /\ \E j \in 1..Len(perturbers) : j # perturber /\ perturbers[j].propagation # None

\* a plan as on_move_accepted starts it from the recorded move
SeededPlan(move) ==
    Some([center |-> move[1], dx |-> move[2], dy |-> move[3],
          fracNum |-> 1, fracDen |-> 2, steps_remaining |-> PlanSteps])

\* plan pl after one more accepted move of its center: (dx, dy) refreshed,
\* one step less, no plan when none is left
CountedDown(pl, move) ==
    IF pl.steps_remaining = 1 THEN None
    ELSE Some([pl EXCEPT !.dx = move[2], !.dy = move[3],
                         !.steps_remaining = pl.steps_remaining - 1])

\* every plan present has 1 to 3 steps remaining and neighbor fraction 1/2
PlansInRange ==
    \A k \in 1..Len(perturbers) :
        perturbers[k].propagation # None =>
            /\ perturbers[k].propagation[1].steps_remaining \in 1..3
            /\ perturbers[k].propagation[1].fracNum * 2 = perturbers[k].propagation[1].fracDen

\* no perturber has handed out more than 3 propagated candidates in a row
AtMostThreeInARow == \A k \in 1..Len(perturbers) : obs.streak[k] <= 3

\* a step changes the plan of perturber k only when it completes an
\* iteration whose candidate k produced
PlanChangesOnlyAtDecision ==
    \A k \in 1..Len(perturbers) :
        perturbers'[k].propagation # perturbers[k].propagation =>
            IterationEnds /\ k = perturber

\* an accepted move starts a plan where none runs for the moved point, and
\* counts a running one down; no plan appears otherwise
PlanLifecycleStep ==
    /\ (AcceptingStep /\ LastMove # None) =>
          Plan' = IF Plan # None /\ Plan[1].center = LastMove[1][1]
                  THEN CountedDown(Plan[1], LastMove[1])
                  ELSE SeededPlan(LastMove[1])
    /\ (AcceptingStep /\ LastMove = None) => Plan' = Plan
    /\ (IterationEnds /\ ~AcceptingStep) => Plan' = None

\* C17: a plan is started only by on_move_accepted, with neighbor fraction
\* 0.5 and 3 steps remaining; each accepted move for its center refreshes
\* (dx, dy) and takes one step off, and the plan is cleared at zero; so a
\* present plan always has 1 to 3 steps remaining, and a perturber hands
\* out at most 3 propagated candidates in a row before it samples again.
C17_PlanLifecycle ==
    /\ [](PlansInRange /\ AtMostThreeInARow)
    /\ [][PlanChangesOnlyAtDecision /\ PlanLifecycleStep]_vars

\* the third propagated candidate in a row was accepted and the plan,
\* counted down to zero, is cleared
C17_Witness ==
    /\ pc = "top"
    /\ perturber > 0
    /\ obs.streak[perturber] = 3
    /\ obs.propagated
    /\ delta # None /\ delta[1] <= CostScale
    /\ Plan = None

\* ------------------------------------------------------------------------
\* Properties of resegment and simplify (SpecFn)
\* ------------------------------------------------------------------------

Resegmented == fn.op = "resegment"

Simplified == fn.op = "simplify"

\* v lies between a and b
BetweenCoord(a, v, b) == (a <= v /\ v <= b) \/ (b <= v /\ v <= a)

BetweenPoints(p, v, q) ==
    /\ BetweenCoord(p[1], v[1], q[1])
    /\ BetweenCoord(p[2], v[2], q[2])
    /\ BetweenCoord(p[3], v[3], q[3])

\* out holds the points orig in order, at the places S, from its first to its
\* last place, and every other point of out lies within the segment of orig
\* it falls in
RouteKept(orig, out, S) ==
    /\ Cardinality(S) = Len(orig)
    /\ 1 \in S
    /\ Len(out) \in S
    /\ \A j \in 1..Len(out) :
          LET r == Cardinality({k \in S : k <= j})
          IN  IF j \in S THEN out[j] = orig[r]
              ELSE /\ r < Len(orig)
                   /\ BetweenPoints(orig[r], out[j], orig[r + 1])

\* C8 (as claimed): resegment returns a path of exactly target points whenever the path
\* has a segment and target exceeds its point count, and None (no path) when
\* target is at most the point count.
C8_ExactTargetCount ==
    Resegmented =>
        LET target == fn.arg[1]
            count == Len(path.points)
        IN  /\ target <= count => fn.out = None
            /\ (count >= 2 /\ target > count) =>
                  /\ fn.out # None
                  /\ Len(fn.out[1].points) = target

\* C9 (as claimed): resegment keeps the route: the original points are in the output, in
\* order and at unchanged positions, from the first output point to the last;
\* each inserted point lies between the two original points of its segment;
\* the locked flag is the input's.
C9_RoutePreserved ==
    (Resegmented /\ fn.out # None) =>
        /\ \E S \in SUBSET (1..Len(fn.out[1].points)) :
              RouteKept(path.points, fn.out[1].points, S)
        /\ fn.out[1].locked = path.locked

\* the output of simplify is the points pts at the places K, in order
SubsequenceAt(pts, out, K) == out = SelectPoints(pts, K, 1)

\* three consecutive points on one line: the cross product of the two
\* displacements is zero
Collinear(P, i) == Cross(Diff(P[i], P[i - 1]), Diff(P[i + 1], P[i])) = <<0, 0, 0>>

Distinct3(P, i) == P[i - 1] # P[i] /\ P[i] # P[i + 1] /\ P[i - 1] # P[i + 1]

\* C10 (as claimed): simplify returns an order-preserving subsequence of the
\* input points that holds the first and the last one (every point of a path of
\* at most 2 points), with the input's locked flag, and without the middle
\* one of any three consecutive points that are collinear and distinct.
C10_SubsequenceOfInput ==
    Simplified =>
        LET P == path.points
            out == fn.out[1]
        IN  /\ out.locked = path.locked
            /\ Len(P) <= 2 => out.points = P
            /\ Len(P) > 2 =>
                  \E K \in SUBSET (1..Len(P)) :
                     /\ {1, Len(P)} \subseteq K
                     /\ SubsequenceAt(P, out.points, K)
                     /\ \A i \in 2..(Len(P) - 1) :
                           (Collinear(P, i) /\ Distinct3(P, i)) => i \notin K

\* neither displacement at interior point i is shorter than the tolerance
NotDegenerate(P, i, tol) ==
    /\ ~ShorterThan(Diff(P[i], P[i - 1]), tol[1], tol[2])
    /\ ~ShorterThan(Diff(P[i + 1], P[i]), tol[1], tol[2])

\* What simplify does keep: its output is an order-preserving subsequence of
\* the input points rounded to single precision, holding the first and the
\* last one (every point of a path of at most 2 points), with the input's
\* locked flag, and without the middle one of any three consecutive points
\* that are collinear and at least the tolerance apart.
SimplifyInSinglePrecision ==
    Simplified =>
        LET P == [i \in 1..Len(path.points) |-> F32Pt(path.points[i])]
            out == fn.out[1]
        IN  /\ out.locked = path.locked
            /\ Len(P) <= 2 => out.points = P
            /\ Len(P) > 2 =>
                  \E K \in SUBSET (1..Len(P)) :
                     /\ {1, Len(P)} \subseteq K
                     /\ SubsequenceAt(P, out.points, K)
                     /\ \A i \in 2..(Len(P) - 1) :
                           (Collinear(P, i) /\ NotDegenerate(P, i, fn.arg)) => i \notin K

\* a - b
Displacement(a, b) == <<a[1] - b[1], a[2] - b[2], a[3] - b[3]>>

\* the decision on interior point i from its two neighbours in P: kept when
\* a displacement is shorter than the tolerance, and otherwise exactly when
\* the cross product of the unit displacements is above the tolerance
KeptByRule(P, i, tol) ==
    LET v1 == Displacement(P[i], P[i - 1])
        v2 == Displacement(P[i + 1], P[i])
    IN  \/ ShorterThan(v1, tol[1], tol[2])
        \/ ShorterThan(v2, tol[1], tol[2])
        \/ CrossAbove(v1, v2, tol[1], tol[2])

\* the places of P the rule keeps, every interior point judged from its
\* neighbours in P itself
KeptPlaces(P, tol) ==
    {1, Len(P)} \cup {i \in 2..(Len(P) - 1) : KeptByRule(P, i, tol)}

\* C24: simplify decides each interior point once, from its two neighbours
\* in the path it was given: the point is kept if either displacement is
\* shorter than the tolerance, and otherwise dropped exactly when the cross
\* product of the two unit displacements is at most the tolerance.
C24_DecidedOnceFromInput ==
    (Simplified /\ Len(path.points) > 2) =>
        Len(fn.out[1].points) = Cardinality(KeptPlaces(path.points, fn.arg))
        /\ fn.out[1].points =
              SelectPoints(get_points(path), KeptPlaces(path.points, fn.arg), 1)

\* What simplify does decide: the same rule, applied once to each interior
\* point and its two neighbours in the points rounded to single precision.
SimplifyDecidesInSinglePrecision ==
    (Simplified /\ Len(path.points) > 2) =>
        fn.out[1].points =
            SelectPoints(get_points(path), KeptPlaces(get_points(path), fn.arg), 1)

\* What resegment does keep: the route of the input points rounded to single
\* precision, with at least the target number of points and fewer than one
\* more per segment.
ResegmentInSinglePrecision ==
    (Resegmented /\ fn.out # None) =>
        /\ \E S \in SUBSET (1..Len(fn.out[1].points)) :
              RouteKept(get_points(path), fn.out[1].points, S)
        /\ fn.out[1].locked = path.locked
        /\ Len(fn.out[1].points) >= fn.arg[1]
        /\ Len(fn.out[1].points) < fn.arg[1] + Len(path.points) - 1

\* ------------------------------------------------------------------------
\* Properties of the path operations (SpecPath)
\* ------------------------------------------------------------------------

\* delete_point or shift_point was called on a locked path of 2 points or more
EditedLocked ==
    /\ fn.op \in {"delete_point", "shift_point"}
    /\ given.locked
    /\ Len(given.points) >= 2

\* the call addressed the first or the last point
AtLockedEndpoint == EditedLocked /\ fn.arg[1] \in {1, Len(given.points)}

\* the call addressed a point between them
AtInteriorPoint == EditedLocked /\ 1 < fn.arg[1] /\ fn.arg[1] < Len(given.points)

\* the kind of the error an index outside the bounds is answered with
RangeErrorKind == delete_point(given, 0).error[1].kind

\* C11 (as claimed): on a locked path of 2 points or more, delete_point and
\* shift_point on the first or the last index fail with an error of another
\* kind than the one an index outside the bounds raises, and leave the points
\* as they were; on an index between them they succeed.
C11_LockedEndpointError ==
    /\ AtLockedEndpoint =>
          /\ fn.out.error # None
          /\ fn.out.error[1].kind # RangeErrorKind
          /\ path = given
    /\ AtInteriorPoint => fn.out.error = None

\* shift_point was asked to read the new z and the DEM is missing or has no
\* elevation at the new position
SampleFails ==
    /\ fn.op = "shift_point"
    /\ fn.arg[4]
    /\ \/ dem = None
       \/ get_elevation(dem[1], Trunc(given.points[fn.arg[1]][1] + fn.arg[2]),
                        Trunc(given.points[fn.arg[1]][2] + fn.arg[3])) = None

\* the path after the call is the path before it with the addressed point
\* deleted, or moved by (dx, dy)
EditApplied ==
    IF fn.op = "delete_point"
    THEN path = Path(RemoveAt(given.points, fn.arg[1]), given.locked)
    ELSE /\ Len(path.points) = Len(given.points)
         /\ path.locked = given.locked
         /\ \A i \in 1..Len(path.points) :
               IF i = fn.arg[1]
               THEN /\ path.points[i][1] = given.points[i][1] + fn.arg[2]
                    /\ path.points[i][2] = given.points[i][2] + fn.arg[3]
               ELSE path.points[i] = given.points[i]

\* C11 (amended): on a locked path of 2 points or more, delete_point and
\* shift_point on the first or the last index fail with IndexError, the kind
\* of error an index outside the bounds raises too (the message tells them
\* apart), and leave the points as they were; on an index between them
\* delete_point succeeds, and shift_point succeeds unless it is to read the
\* new z and no elevation is to be had, when it fails with ValueError and
\* leaves the points as they were.
C11_LockedEndpointFails ==
    /\ AtLockedEndpoint =>
          /\ fn.out.error = Some([kind |-> "IndexError", message |-> "locked"])
          /\ fn.out.error[1].kind = RangeErrorKind
          /\ path = given
    /\ AtInteriorPoint =>
          IF SampleFails
          THEN /\ fn.out.error # None
               /\ fn.out.error[1].kind = "ValueError"
               /\ path = given
          ELSE /\ fn.out.error = None
               /\ EditApplied

\* shift_point was refused on the last point of a locked path, which a DEM
\* would have given an elevation
C11_Witness ==
    /\ AtLockedEndpoint
    /\ fn.op = "shift_point"
    /\ fn.arg[1] = Len(given.points)
    /\ ~SampleFails
    /\ fn.out.error # None

\* the derived queries were asked of the path
Measured == fn.op = "measure"

\* the sum of the distance column of the rows S
DistanceSum(S) == SumSeq([i \in 1..Len(S) |-> S[i][4]])

SinglePrecisionExact(P) ==
    /\ \A i \in 1..Len(P) : F32(P[i][3]) = P[i][3]
    /\ SumSeq([i \in 1..(Len(P) - 1) |-> Abs(P[i + 1][3] - P[i][3])]) <= F32Mant

C26_AcsmReturnsWithoutSegments ==
    (fn.op = "acsm_equation" /\ Len(path.points) <= 1) => fn.out # None

\* C27 (as claimed): re3 is exactly 0 on a path of at most 1 segment, that
\* is of 0, 1 or 2 points, for every time budget.
C27_ZeroUpToOneSegment ==
    (fn.op = "re3" /\ Len(path.points) <= 2) => fn.out = Some(0)

\* C27 (amended): re3 is exactly 0 on a path without segments, that is of 0
\* or 1 points, for every time budget.
C27_ZeroWithoutSegment ==
    (fn.op = "re3" /\ Len(path.points) <= 1) => fn.out = Some(0)

\* re3 was called on a path of 1 point with a time budget of 2 hours and
\* returned 0
C27_Witness ==
    /\ fn.op = "re3"
    /\ Len(path.points) = 1
    /\ fn.arg[1] = 2
    /\ fn.out = Some(0)

\* ------------------------------------------------------------------------
\* Properties of consolidate_consecutive_clusters (SpecMerge)
\* ------------------------------------------------------------------------

Consolidated == fn.op = "consolidate"

\* points i and i + 1 of P are within md of each other in the plane
Linked(P, i, md) ==
    /\ i >= 1
    /\ i < Len(P)
    /\ (P[i + 1][1] - P[i][1]) * (P[i + 1][1] - P[i][1])
         + (P[i + 1][2] - P[i][2]) * (P[i + 1][2] - P[i][2]) <= md * md

\* the maximal run of linked points that holds index i: its first and last index
RunFirst(P, i, md) ==
    CHOOSE a \in 1..i :
        (\A k \in a..(i - 1) : Linked(P, k, md)) /\ ~Linked(P, a - 1, md)

RunLast(P, i, md) ==
    CHOOSE b \in i..Len(P) :
        (\A k \in i..(b - 1) : Linked(P, k, md)) /\ ~Linked(P, b, md)

\* index i is in a run of 2 points or more that is to be merged: the path
\* is not locked, or the run holds neither endpoint
Merged(P, lk, i, md) ==
    /\ RunFirst(P, i, md) < RunLast(P, i, md)
    /\ ~(lk /\ (RunFirst(P, i, md) = 1 \/ RunLast(P, i, md) = Len(P)))

\* the place in the output of the point that stands for input point i
PlaceOf(P, lk, i, md) ==
    Cardinality({k \in 1..i : ~Merged(P, lk, k, md) \/ k = RunFirst(P, k, md)})

\* the sum of coordinate c over the points a..b of P
SumOver(P, a, b, c) == SumSeq([k \in 1..(b - a + 1) |-> P[a + k - 1][c]])

\* Q is P with every merged run replaced by one point at its mean x, y and
\* every other point as it was, in order
RunsReplaced(P, lk, Q, md) ==
    /\ Len(Q) = IF Len(P) = 0 THEN 0 ELSE PlaceOf(P, lk, Len(P), md)
    /\ \A i \in 1..Len(P) :
          LET a == RunFirst(P, i, md)
              b == RunLast(P, i, md)
              q == Q[PlaceOf(P, lk, i, md)]
          IN  IF Merged(P, lk, i, md)
              THEN /\ PlaceOf(P, lk, i, md) = PlaceOf(P, lk, a, md)
                   /\ (b - a + 1) * q[1] = SumOver(P, a, b, 1)
                   /\ (b - a + 1) * q[2] = SumOver(P, a, b, 2)
              ELSE q = P[i]

WithinFivePercent(L) == \A i \in 1..Len(L) : 20 * L[i] <= SumSeq(L)

\* C14 (as claimed): after the densification step a candidate of positive
\* length has no segment longer than 5% of its total length, and at least
\* max(original point count, ceil(length / (0.05 * length)) + 1) points.
C14_NoLongSegment ==
    (fn.op = "densify" /\ get_total_distance(fn.out) > 0) =>
        /\ WithinFivePercent(SegLengths(fn.out))
        /\ get_point_count(fn.out) >=
              Max(fn.arg[2], DesiredSegments(get_total_distance(fn.arg[1])) + 1)

\* What the densification step does ensure: the candidate has at least
\* max(original point count, 21) points, its own points among them.
DensifiedToTargetCount ==
    (fn.op = "densify" /\ get_total_distance(fn.arg[1]) > 0) =>
        /\ get_point_count(fn.out) >= Max(fn.arg[2], 21)
        /\ get_point_count(fn.out) >= get_point_count(fn.arg[1])

=============================================================================
